---------------------------- MODULE Spec2Model ----------------------------
(***************************************************************************)
(* A model of stream-to-dlna: the playback orchestrator (/play, /stop,     *)
(* /health of app/main.py), the streaming engine (app/streamer.py), the    *)
(* device registry (app/device_manager.py) and the stream format cache     *)
(* (app/stream_cache.py).                                                  *)
(*                                                                         *)
(* Request handlers are modelled statement group by statement group, with  *)
(* a program counter per request thread, so that the same actions serve    *)
(* the sequential specification (one request thread) and the concurrent    *)
(* one (two request threads of the same worker process).                   *)
(***************************************************************************)
EXTENDS Integers, Sequences, FiniteSets, TLC

(***************************************************************************)
(* Bounds of the model.                                                    *)
(***************************************************************************)
\* number of streamer objects (AudioStreamer / PassthroughStreamer) a run creates
MaxStreamers == 2
\* the clock runs from 0 to MaxTime
MaxTime == 3
\* the time-to-live of a stream format cache entry, in clock ticks (the ttl of
\* StreamFormatCache.__init__, scaled to the clock of the model)
TTL == 1
\* texts handed to validate_ip_address have up to MaxSegments segments
MaxSegments == 5
\* a device description lists up to MaxServices services
MaxServices == 2
\* a discovery reads up to MaxResponses responses
MaxResponses == 3
MaxRetries == 2
\* a relay response carries up to MaxChunks chunks, and up to MaxConnections
\* clients connect to the listener one after the other
MaxChunks == 1
MaxConnections == 2
MaxText == 3

(***************************************************************************)
(* Program constants.                                                      *)
(***************************************************************************)

\* request threads of worker 1; thread 1 alone is the sequential program
Threads == {1, 2}
\* worker processes sharing the registry's state file
Workers == {1, 2}

\* Python's None for a streamer reference, a process handle or a PID file
None == 0
\* last_scan_time = None
NoTime == -1

(***************************************************************************)
(* Strings.  A MIME type is kept in the state by name; MimeChars gives its *)
(* characters, so that the substring tests of the code are computed.       *)
(***************************************************************************)
MimeChars ==
  ("audio/mpeg"      :> <<"a","u","d","i","o","/","m","p","e","g">>) @@
  ("audio/aac"       :> <<"a","u","d","i","o","/","a","a","c">>) @@
  ("application/ogg" :> <<"a","p","p","l","i","c","a","t","i","o","n","/","o","g","g">>) @@
  ("text/html"       :> <<"t","e","x","t","/","h","t","m","l">>) @@
  ("audio/mp3" :> <<"a","u","d","i","o","/","m","p","3">>) @@
  ("AUDIO/MPEG" :> <<"A","U","D","I","O","/","M","P","E","G">>) @@
  ("audio/mp4" :> <<"a","u","d","i","o","/","m","p","4">>) @@
  ("audio/vnd.dlna.adts" :> <<"a","u","d","i","o","/","v","n","d",".","d","l","n","a",".","a","d","t","s">>) @@
  ("audio/x-m4a" :> <<"a","u","d","i","o","/","x","-","m","4","a">>) @@
  ("audio/flac" :> <<"a","u","d","i","o","/","f","l","a","c">>) @@
  ("audio/x-wav" :> <<"a","u","d","i","o","/","x","-","w","a","v">>) @@
  ("audio/ogg" :> <<"a","u","d","i","o","/","o","g","g">>) @@
  ("audio/aacp" :> <<"a","u","d","i","o","/","a","a","c","p">>) @@
  ("audio/mpeg4-generic" :> <<"a","u","d","i","o","/","m","p","e","g","4","-","g","e","n","e","r","i","c">>) @@
  ("video/mp4" :> <<"v","i","d","e","o","/","m","p","4">>) @@
  ("audio/x-mpeg" :> <<"a","u","d","i","o","/","x","-","m","p","e","g">>) @@
  ("audio/x-hx-aac-adts" :> <<"a","u","d","i","o","/","x","-","h","x","-","a","a","c","-","a","d","t","s">>) @@
  ("audio/L16" :> <<"a","u","d","i","o","/","L","1","6">>) @@
  (""                :> <<>>)

\* the MIME types a HEAD request reports
Mimes == {"audio/mpeg"}

\* Python's `sub in s` on the characters of s
IsSubstr(sub, s) ==
  \E i \in 1..(Len(s) - Len(sub) + 1) : SubSeq(s, i, i + Len(sub) - 1) = sub

\* Python's s.split(sep) for a separator of one character
RECURSIVE Split(_, _)
Split(t, sep) ==
  IF \A i \in 1..Len(t) : t[i] # sep THEN <<t>>
  ELSE LET k == CHOOSE i \in 1..Len(t) : t[i] = sep /\ \A j \in 1..(i - 1) : t[j] # sep
       IN  <<SubSeq(t, 1, k - 1)>> \o Split(SubSeq(t, k + 1, Len(t)), sep)

\* Python's s.lower() on the characters of an ASCII text
Lower(t) ==
  LET up == <<"A","B","C","D","E","F","G","H","I","J","K","L","M","N","O","P","Q","R","S","T","U","V","W","X","Y","Z">>
      lo == <<"a","b","c","d","e","f","g","h","i","j","k","l","m","n","o","p","q","r","s","t","u","v","w","x","y","z">>
  IN  [i \in 1..Len(t) |->
         IF \E k \in 1..Len(up) : up[k] = t[i]
         THEN lo[CHOOSE k \in 1..Len(up) : up[k] = t[i]] ELSE t[i]]

\* Python's t.strip()
Strip(t) ==
  LET ink == { i \in 1..Len(t) : t[i] \notin {" ", "\n", "\t"} }
  IN  IF ink = {} THEN <<>>
      ELSE SubSeq(t, CHOOSE i \in ink : \A k \in ink : i <= k,
                     CHOOSE i \in ink : \A k \in ink : i >= k)

\* `marker in mime_type.lower()`
MimeHas(mime, marker) == IsSubstr(marker, Lower(MimeChars[mime]))

(***************************************************************************)
(* Stream URLs.  A URL is kept by name; UrlScheme and UrlHost are what     *)
(* urlparse returns for it (the scheme, and the characters of the          *)
(* hostname, both lower-cased by urlparse), UrlLowerChars its lower-cased  *)
(* characters.                                                             *)
(***************************************************************************)
\* Python's s.startswith(prefix) on characters
StartsWith(s, prefix) == Len(s) >= Len(prefix) /\ SubSeq(s, 1, Len(prefix)) = prefix

NoUrl == ""
Urls == {"http://radio/a", "https://radio/b", "file:///etc/passwd"}
\* further URLs handed to validate_stream_url
MoreUrls ==
  {"ftp://example.com/file",
   "javascript:alert(1)",
   "example.com/stream",
   "http://",
   "HTTP://radio/a",
   "http://LOCALHOST:22",
   "http://127.0.0.1/admin",
   "http://0.0.0.0/",
   "http://[::1]/admin",
   "http://[0:0:0:0:0:0:0:1]/",
   "http://169.254.169.254/metadata",
   "http://[fd00::1]/",
   "http://127.0.0.2/"}

\* parsed.scheme; "" when there is none
UrlScheme(u) ==
  CASE u = "http://radio/a"                  -> "http"
    [] u = "https://radio/b"                 -> "https"
    [] u = "file:///etc/passwd"              -> "file"
    [] u = "ftp://example.com/file"          -> "ftp"
    [] u = "javascript:alert(1)"             -> "javascript"
    [] u = "http://"                         -> "http"
    [] u = "HTTP://radio/a"                  -> "http"
    [] u = "http://LOCALHOST:22"             -> "http"
    [] u = "http://127.0.0.1/admin"          -> "http"
    [] u = "http://0.0.0.0/"                 -> "http"
    [] u = "http://[::1]/admin"              -> "http"
    [] u = "http://[0:0:0:0:0:0:0:1]/"       -> "http"
    [] u = "http://169.254.169.254/metadata" -> "http"
    [] u = "http://[fd00::1]/"               -> "http"
    [] u = "http://127.0.0.2/"               -> "http"
    [] OTHER                                 -> ""

\* parsed.hostname; <<>> when it is None (parsed.netloc is then empty too)
UrlHost(u) ==
  CASE u = "http://radio/a"                  -> <<"r","a","d","i","o">>
    [] u = "https://radio/b"                 -> <<"r","a","d","i","o">>
    [] u = "ftp://example.com/file"          -> <<"e","x","a","m","p","l","e",".","c","o","m">>
    [] u = "HTTP://radio/a"                  -> <<"r","a","d","i","o">>
    [] u = "http://LOCALHOST:22"             -> <<"l","o","c","a","l","h","o","s","t">>
    [] u = "http://127.0.0.1/admin"          -> <<"1","2","7",".","0",".","0",".","1">>
    [] u = "http://0.0.0.0/"                 -> <<"0",".","0",".","0",".","0">>
    [] u = "http://[::1]/admin"              -> <<":",":","1">>
    [] u = "http://[0:0:0:0:0:0:0:1]/"       -> <<"0",":","0",":","0",":","0",":","0",":","0",":","0",":","1">>
    [] u = "http://169.254.169.254/metadata" -> <<"1","6","9",".","2","5","4",".","1","6","9",".","2","5","4">>
    [] u = "http://[fd00::1]/"               -> <<"f","d","0","0",":",":","1">>
    [] u = "http://127.0.0.2/"               -> <<"1","2","7",".","0",".","0",".","2">>
    [] OTHER                                 -> <<>>

BlockedHosts ==
  { <<"l","o","c","a","l","h","o","s","t">>,
    <<"1","2","7",".","0",".","0",".","1">>,
    <<"0",".","0",".","0",".","0">>,
    <<":",":","1">>,
    <<"0",":","0",":","0",":","0",":","0",":","0",":","0",":","1">> }

\* a validation that accepts any scheme
validate_any_scheme(u) == UrlScheme(u) # ""

validate_stream_url(u) ==
  /\ UrlScheme(u) # ""
  /\ UrlHost(u) # <<>>
  /\ UrlScheme(u) \in {"http", "https"}
  /\ UrlHost(u) \notin BlockedHosts
  /\ ~StartsWith(UrlHost(u), <<"1","6","9",".","2","5","4",".">>)
  /\ ~StartsWith(UrlHost(u), <<"f","d","0","0",":">>)

\* the characters of stream_url.lower()
UrlLowerChars ==
  ("http://radio/a"     :> <<"h","t","t","p",":","/","/","r","a","d","i","o","/","a">>) @@
  ("https://radio/b"    :> <<"h","t","t","p","s",":","/","/","r","a","d","i","o","/","b">>) @@
  ("file:///etc/passwd" :> <<"f","i","l","e",":","/","/","/","e","t","c","/","p","a","s","s","w","d">>) @@
  (""                   :> <<>>)

\* is_https = stream_url.lower().startswith('https://')
UrlPrefixHttps(u) == StartsWith(UrlLowerChars[u], <<"h","t","t","p","s",":","/","/">>)

\* AudioStreamer.get_stream_url(local_ip), or the configured public URL
TranscodedUrl == "http://host:port/stream.mp3"

(***************************************************************************)
(* Devices and capabilities.                                               *)
(***************************************************************************)
\* has = FALSE: the device record carries no `capabilities` key
NoCaps == [has |-> FALSE, fams |-> {}, raw |-> ""]
\* detect_capabilities after a failed probe: all flags false, raw None
UnknownCaps == [has |-> TRUE, fams |-> {}, raw |-> ""]
Mp3Caps == [has |-> TRUE, fams |-> {"mp3"}, raw |-> "http-get:*:audio/mpeg:*"]
AacCaps == [has |-> TRUE, fams |-> {"aac"}, raw |-> "http-get:*:audio/mp4:*"]

\* what GetProtocolInfo can make detect_capabilities return
ProbedCaps == {UnknownCaps, Mp3Caps, AacCaps}

Ips == {"10.0.0.1", "10.0.0.2"}
\* current_device = None
NoDev == [id |-> "", ip |-> "", caps |-> NoCaps]
\* the renderers of the network, as discovery describes them (no capabilities yet)
NetDevices == { [id |-> "uuid:A", ip |-> "10.0.0.1", caps |-> NoCaps],
                [id |-> "uuid:B", ip |-> "10.0.0.2", caps |-> NoCaps] }
WithCaps(d, c) == [d EXCEPT !.caps = c]


(***************************************************************************)
(* State.                                                                  *)
(***************************************************************************)
VARIABLES
  \* ---- streaming engine and orchestrator of worker 1 ----
  objs,         \* the streamer objects created so far: 1..MaxStreamers -> record
  nobj,         \* how many streamer objects were created
  streamer,     \* main.py global `streamer`: None or an object
  dlna_client,  \* main.py global `dlna_client` is not None
  alive,        \* the transcoder subprocesses alive in the OS (by pid)
  pidFile,      \* content of AudioStreamer.PID_FILE, None when the file is absent
  portOwner,    \* the streamer object whose listener is bound to the stream port
  handlerProc,  \* class attribute StreamHandler.ffmpeg_process
  req,          \* per request thread: program counter, locals, response
  \* ---- stream format cache ----
  cache,        \* StreamFormatCache.cache, by worker: key -> entry
  cacheFile,    \* stream_format_cache.json: NoFile or the persisted map
  persistTime,  \* the clock when cacheFile was last written
  cacheRet,     \* what the last get() returned
  cacheHist,    \* per URL: the last completed set() as <<mime, method, time>>
  cacheOp,      \* per request thread: the call on the cache it is in, its locals
  now,          \* the clock (time.time())
  \* ---- device registry ----
  dm,           \* per worker: the in-memory snapshot of its DeviceManager
  stateFile,    \* content of state.json (a sequence of tokens), NoFile when absent
  tmpFile,      \* content of state.json.tmp, NoFile when absent
  io,           \* per worker: the file handle of a _save_state in progress
  regRet,       \* what the last registry read returned, and to which worker
  sel,          \* per worker: the /devices/select request in progress
  lastWrite,    \* the last completed registry write: who wrote what
  \* ---- functions called on their own ----
  call          \* a call of a function or method: its name, its input, its result

streamVars == <<objs, nobj, streamer, dlna_client, alive, pidFile, portOwner, handlerProc, req>>
cacheVars  == <<cache, cacheFile, persistTime, cacheRet, cacheHist, cacheOp>>
regVars    == <<dm, stateFile, tmpFile, io, regRet, sel, lastWrite>>
vars       == <<streamVars, cacheVars, now, regVars, call>>

(***************************************************************************)
(* The streaming engine (app/streamer.py).  The engine's methods act on    *)
(* the "world": the streamer objects and the OS resources they hold.       *)
(***************************************************************************)
World == [objs |-> objs, alive |-> alive, pidFile |-> pidFile,
          portOwner |-> portOwner, handlerProc |-> handlerProc]

SetWorld(w) ==
  /\ objs' = w.objs
  /\ alive' = w.alive
  /\ pidFile' = w.pidFile
  /\ portOwner' = w.portOwner
  /\ handlerProc' = w.handlerProc

\* a slot of objs that holds no object yet
NoObj == [kind |-> "none", running |-> FALSE, proc |-> None, server |-> FALSE]
\* AudioStreamer.__init__ / PassthroughStreamer.__init__
NewAudio == [kind |-> "audio", running |-> FALSE, proc |-> None, server |-> FALSE]
NewPass  == [kind |-> "pass",  running |-> FALSE, proc |-> None, server |-> FALSE]

\* stop(), first part: http_server.shutdown(); server_close(); http_server = None
StopListener(w, s) ==
  IF w.objs[s].server
  THEN [w EXCEPT !.objs[s].server = FALSE,
                 !.portOwner = IF @ = s THEN None ELSE @]
  ELSE w

\* a stop() that leaves the transcoder subprocess alone
StopProcessSkipped(w, s) == w

\* stop(), second part: terminate(), wait(5), kill(); ffmpeg_process = None
StopProcess(w, s) ==
  IF w.objs[s].proc # None
  THEN [w EXCEPT !.alive = @ \ {w.objs[s].proc}, !.objs[s].proc = None]
  ELSE w

\* _remove_pid_file
RemovePidFile(w) == [w EXCEPT !.pidFile = None]

\* the body of AudioStreamer.stop in the order of the code: the world after the
\* listener part, after the subprocess part, after the PID file part
AudioStopSteps(w, s) ==
  LET w1 == StopListener(w, s)
      w2 == [StopProcess(w1, s) EXCEPT !.handlerProc = None]
      w3 == RemovePidFile(w2)
  IN  <<w1, w2, w3>>

\* AudioStreamer.stop
AudioStop(w, s) ==
  IF ~w.objs[s].running THEN w
  ELSE [AudioStopSteps(w, s)[3] EXCEPT !.objs[s].running = FALSE]

\* PassthroughStreamer.stop
PassStop(w, s) == [w EXCEPT !.objs[s].running = FALSE]

\* a stop() that releases nothing
StopSkipped(w, s) == w

\* streamer.stop() on whichever class the object has
Stop(w, s) == IF w.objs[s].kind = "audio" THEN AudioStop(w, s) ELSE PassStop(w, s)

\* an is_running that cleans up after a crash without clearing the running flag
AudioIsRunningKeepingFlag(w, s) ==
  IF w.objs[s].proc # None /\ w.objs[s].proc \in w.alive
  THEN [ret |-> TRUE, w |-> w, crash_callback |-> FALSE]
  ELSE IF w.objs[s].running
       THEN [ret |-> FALSE, w |-> StopListener(w, s), crash_callback |-> TRUE]
       ELSE [ret |-> FALSE, w |-> w, crash_callback |-> FALSE]

\* AudioStreamer.is_running: the answer, the world after its crash cleanup
\* (running = False, the listener shut down and closed) and whether the call
\* reached the invocation of the crash callback
AudioIsRunning(w, s) ==
  IF w.objs[s].proc # None /\ w.objs[s].proc \in w.alive
  THEN [ret |-> TRUE, w |-> w, crash_callback |-> FALSE]
  ELSE IF w.objs[s].running
       THEN [ret |-> FALSE,
             w |-> StopListener([w EXCEPT !.objs[s].running = FALSE], s),
             crash_callback |-> TRUE]
       ELSE [ret |-> FALSE, w |-> w, crash_callback |-> FALSE]

\* PassthroughStreamer.is_running
PassIsRunning(w, s) == [ret |-> w.objs[s].running, w |-> w, crash_callback |-> FALSE]

IsRunning(w, s) ==
  IF w.objs[s].kind = "audio" THEN AudioIsRunning(w, s) ELSE PassIsRunning(w, s)

\* _cleanup_orphaned_ffmpeg: kill the process the PID file names, remove the file
\* a cleanup that removes the PID file and leaves the process alone
CleanupOrphanedFileOnly(w) == [w EXCEPT !.pidFile = None]

CleanupOrphaned(w) ==
  IF w.pidFile = None THEN w
  ELSE [w EXCEPT !.alive = @ \ {w.pidFile}, !.pidFile = None]

\* start(), the Popen and what follows it up to the bind: the new process has the
\* pid of the object that spawns it; _save_pid; StreamHandler.ffmpeg_process
Spawn(w, s) ==
  [w EXCEPT !.objs[s].proc = s, !.alive = @ \cup {s}, !.pidFile = s, !.handlerProc = s]

\* the bind of ReuseAddrHTTPServer succeeds when nothing listens on the port
CanBind(w, foreign) == w.portOwner = None /\ ~foreign

\* start(), the bind and what follows it: http_server, server thread, running = True
Bind(w, s) == [w EXCEPT !.objs[s].server = TRUE, !.portOwner = s, !.objs[s].running = TRUE]

\* a passthrough start that launches a transcoder as AudioStreamer.start does
PassStartSpawning(w, s) == Spawn([w EXCEPT !.objs[s].running = TRUE], s)

\* PassthroughStreamer.start
PassStart(w, s) == [w EXCEPT !.objs[s].running = TRUE]


(***************************************************************************)
(* The stream format cache (app/stream_cache.py).                          *)
(***************************************************************************)
\* _get_cache_key: hashlib.sha256(url).hexdigest()[:16]
CacheKey(u) ==
  CASE u = "http://radio/a"     -> "4df1cb4e0caf70c0"
    [] u = "https://radio/b"    -> "44f9e2553c71f611"
    [] u = "file:///etc/passwd" -> "0e7a5a5c10cbe88a"
    [] OTHER                    -> "e3b0c44298fc1c14"

\* get() returning None
NoEntry == [url |-> NoUrl, mime_type |-> "", detection_method |-> "", timestamp |-> NoTime]
\* the cache file is absent
NoCacheFile == [exists |-> FALSE, data |-> <<>>]

\* an expiry test that already fires at the age ttl
ExpiredAtTtl(entry, t) == t - entry.timestamp >= TTL

\* the expiry test of get() and _cleanup_expired: now - timestamp > ttl
Expired(entry, t) == t - entry.timestamp > TTL

\* _cleanup_expired
CleanupExpired(c, t) ==
  LET keep == { k \in DOMAIN c : ~Expired(c[k], t) }
  IN  [k \in keep |-> c[k]]

\* json.dump of the cache map / json.load of the file: a map of string keys to
\* entries of strings and one number comes back as it was written
CacheDump(c) == [exists |-> TRUE, data |-> c]

\* _save_cache: sweep, then write the file; the cache and the file after it
SaveCache(c, t) ==
  LET swept == CleanupExpired(c, t)
  IN  [c |-> swept, file |-> CacheDump(swept)]

\* StreamFormatCache.get: the entry returned (NoEntry for None) and the cache after
CacheGet(c, u, t) ==
  LET key == CacheKey(u)
  IN  IF key \notin DOMAIN c THEN [ret |-> NoEntry, c |-> c]
      ELSE IF Expired(c[key], t)
           THEN [ret |-> NoEntry, c |-> [k \in DOMAIN c \ {key} |-> c[k]]]
           ELSE [ret |-> c[key], c |-> c]

\* StreamFormatCache.set: the cache and the file after it
CacheSet(c, u, mime, method, t) ==
  LET key   == CacheKey(u)
      entry == [url |-> u, mime_type |-> mime, detection_method |-> method, timestamp |-> t]
      c1    == [k \in DOMAIN c \cup {key} |-> IF k = key THEN entry ELSE c[k]]
  IN  SaveCache(c1, t)

\* StreamFormatCache.clear
CacheClear(t) == SaveCache(<<>>, t)


(***************************************************************************)
(* The device registry (app/device_manager.py).  The state file holds the  *)
(* JSON text of the document, modelled as a sequence of tokens: the        *)
(* opening brace, current_device, the bracketed list of cached devices     *)
(* (one token per device), last_scan_time, the closing brace.              *)
(***************************************************************************)
\* DeviceManager.__init__: the snapshot before any load
\* (aliased: cached_devices is the very list a discovery scan returned, so that a
\* change made to a device of that list shows in the snapshot; no reload since)
EmptySnapshot == [current_device |-> NoDev, cached_devices |-> <<>>, last_scan_time |-> NoTime,
                  aliased |-> FALSE]

Tok(kind, d, t) == [k |-> kind, d |-> d, t |-> t]

\* json.dump(data, f): the text of the document
Encode(m) ==
  << Tok("{", NoDev, NoTime),
     Tok("current_device", m.current_device, NoTime),
     Tok("[", NoDev, NoTime) >>
  \o [i \in 1..Len(m.cached_devices) |-> Tok("device", m.cached_devices[i], NoTime)]
  \o << Tok("]", NoDev, NoTime),
        Tok("last_scan_time", NoDev, m.last_scan_time),
        Tok("}", NoDev, NoTime) >>

\* json.load accepts exactly one complete document
WellFormed(text) ==
  /\ Len(text) >= 6
  /\ text[1].k = "{"
  /\ text[2].k = "current_device"
  /\ text[3].k = "["
  /\ \A i \in 4..(Len(text) - 3) : text[i].k = "device"
  /\ text[Len(text) - 2].k = "]"
  /\ text[Len(text) - 1].k = "last_scan_time"
  /\ text[Len(text)].k = "}"

\* json.load(f) and the three data.get(...) of _load_state
Decode(text) ==
  [current_device |-> text[2].d,
   cached_devices |-> [i \in 1..(Len(text) - 6) |-> text[i + 3].d],
   last_scan_time |-> text[Len(text) - 1].t,
   aliased |-> FALSE]

NoFile == [exists |-> FALSE, data |-> <<>>]

\* a registry write: the method, the worker, its argument
NoWrite == [op |-> "none", w |-> 0, dev |-> NoDev, list |-> <<>>, time |-> NoTime]

\* no _save_state in progress.  Otherwise: the write method that runs it, and where
\* the file the handle was opened on is now: still the temporary name ("tmp"),
\* renamed to state.json by another writer ("state"), or replaced since ("gone")
NoIo == [pc |-> "idle", at |-> "", op |-> "none"]

\* DeviceManager._load_state: the snapshot after it
LoadState(m, f) ==
  IF ~f.exists THEN m
  ELSE IF WellFormed(f.data) THEN Decode(f.data)
       ELSE EmptySnapshot

\* DeviceManager._save_state when no other writer interferes: the state file after
\* the temporary file was written and renamed over it
SavedFile(m) == [exists |-> TRUE, data |-> Encode(m)]

\* get_current_device: reload, then a copy of current_device
GetCurrentDevice(m, f) == LoadState(m, f).current_device

\* get_cached_devices: reload, then a copy of cached_devices
GetCachedDevices(m, f) == LoadState(m, f).cached_devices

\* get_cache_age: reload, then now - last_scan_time, None (NoTime) if never scanned
GetCacheAge(m, f, t) ==
  LET lst == LoadState(m, f).last_scan_time
  IN  IF lst = NoTime THEN NoTime ELSE t - lst

\* the first device of a list with the given ip, NoDev if there is none
FirstWithIp(l, ip) ==
  IF \E i \in 1..Len(l) : l[i].ip = ip
  THEN l[CHOOSE i \in 1..Len(l) : l[i].ip = ip /\ \A j \in 1..(i-1) : l[j].ip # ip]
  ELSE NoDev

\* find_device_in_cache: reload, then the first cached device with that ip
FindDeviceInCache(m, f, ip) == FirstWithIp(LoadState(m, f).cached_devices, ip)


(***************************************************************************)
(* The DLNA control client (app/dlna_client.py), as far as /play needs it. *)
(***************************************************************************)
\* a routing that knows AAC only by 'aac' and 'mp4'
FamilyWithoutAdts(mime) ==
  IF MimeHas(mime, <<"m","p","e","g">>) \/ MimeHas(mime, <<"m","p","3">>) THEN "mp3"
  ELSE IF MimeHas(mime, <<"a","a","c">>) \/ MimeHas(mime, <<"m","p","4">>) THEN "aac"
  ELSE IF MimeHas(mime, <<"f","l","a","c">>) THEN "flac"
  ELSE IF MimeHas(mime, <<"w","a","v">>) THEN "wav"
  ELSE IF MimeHas(mime, <<"o","g","g">>) THEN "ogg"
  ELSE "none"

\* the capability bucket can_play_format routes a MIME type to
Family(mime) ==
  IF MimeHas(mime, <<"m","p","e","g">>) \/ MimeHas(mime, <<"m","p","3">>) THEN "mp3"
  ELSE IF \/ MimeHas(mime, <<"a","a","c">>) \/ MimeHas(mime, <<"m","p","4">>)
          \/ MimeHas(mime, <<"a","d","t","s">>) \/ MimeHas(mime, <<"m","4","a">>) THEN "aac"
  ELSE IF MimeHas(mime, <<"f","l","a","c">>) THEN "flac"
  ELSE IF MimeHas(mime, <<"w","a","v">>) THEN "wav"
  ELSE IF MimeHas(mime, <<"o","g","g">>) THEN "ogg"
  ELSE "none"

\* can_play_format on a client whose capabilities were loaded from the device record
can_play_format(caps, mime) == caps.has /\ Family(mime) \in caps.fams

\* CurrentTransportState values a device reports; "unavailable": get_transport_info
\* returned None
TransportStates == {"PLAYING", "PAUSED_PLAYBACK", "STOPPED", "unavailable"}
\* further states a device can report
MoreTransportStates == {"TRANSITIONING", "NO_MEDIA_PRESENT"}

\* a stop_if_playing that sends Stop whatever the state
StopIfPlayingSendsAlways(state) == {"GetTransportInfo", "Stop"}

\* stop_if_playing: the SOAP actions it sends for a queried state
StopIfPlayingSends(state) ==
  {"GetTransportInfo"} \cup (IF state \in {"PLAYING", "PAUSED_PLAYBACK"} THEN {"Stop"} ELSE {})

\* play_url: the SOAP actions it sends, and its result
PlayUrlSends(setOk) == {"SetAVTransportURI"} \cup (IF setOk THEN {"Play"} ELSE {})
PlayUrlResult(setOk, playOk) == setOk /\ playOk

\* what http_client.post does with a request: it raises (kind "raise"), or
\* answers with a status code and a body; for GetProtocolInfo the body is kept
\* by the text of its Sink element ("": no Sink element, or an empty one)
HttpOutcomes(bodies) ==
  {[kind |-> "raise", status |-> 0, text |-> ""]} \cup
  {[kind |-> "response", status |-> st, text |-> b] : st \in {200, 204, 500}, b \in bodies}

\* a _send_soap_request that returns the body whatever the status
send_soap_request_any_status(o) ==
  [raises |-> FALSE, none |-> o.kind # "response", text |-> o.text]

\* _send_soap_request: the body on status 200, None on another status and on
\* any exception; raises: the exception leaves the method
send_soap_request(o) ==
  IF o.kind = "response" /\ o.status = 200
  THEN [raises |-> FALSE, none |-> FALSE, text |-> o.text]
  ELSE [raises |-> FALSE, none |-> TRUE, text |-> ""]

\* set_av_transport_uri, play, pause and stop: `response is not None`
soap_command(cmd, o) == ~send_soap_request(o).none

\* stop_if_playing for a queried state and the outcome of the Stop request
stop_if_playing(state, o) ==
  [sends |-> StopIfPlayingSends(state),
   ret   |-> IF "Stop" \in StopIfPlayingSends(state) THEN soap_command("Stop", o) ELSE TRUE]

\* a play_url that sends Play whatever set_av_transport_uri returned
play_url_always_play(oSet, oPlay) ==
  [sends |-> <<"SetAVTransportURI", "Play">>,
   ret   |-> soap_command("SetAVTransportURI", oSet) /\ soap_command("Play", oPlay)]

\* play_url for the outcomes of its two requests: the SOAP actions in the order
\* they are sent, and the result
play_url(oSet, oPlay) ==
  IF ~soap_command("SetAVTransportURI", oSet)
  THEN [sends |-> <<"SetAVTransportURI">>, ret |-> FALSE]
  ELSE [sends |-> <<"SetAVTransportURI", "Play">>, ret |-> soap_command("Play", oPlay)]

\* the Sink values of the model and their characters
Sinks ==
  {"http-get:*:audio/mpeg:*",
   "http-get:*:audio/mp4:*",
   "http-get:*:AUDIO/MPEG:*",
   "http-get:*:audio/mpeg:*,http-get:*:audio/x-flac:*",
   "http-get:*:audio/x-wav:*,http-get:*:application/ogg:*",
   "http-get:*:audio/ogg:*,http-get:*:audio/aac:*",
   "http-get:*:video/mp4:*",
   "http-get:*:audio/x-mpeg:*",
   "http-get:*:audio/aac:*, http-get:*:audio/mp4:DLNA.ORG_PN=AAC_ISO",
   "rtsp-rtp-udp:*:audio/mpeg:*",
   "http-get:*:audio/mpeg:DLNA.ORG_PN=MP3&DLNA.ORG_OP=01"}
SinkChars ==
  ("http-get:*:audio/mpeg:*" :>
     <<"h","t","t","p","-","g","e","t",":","*",":","a","u","d","i","o","/","m","p","e","g",":","*">>) @@
  ("http-get:*:audio/mp4:*" :>
     <<"h","t","t","p","-","g","e","t",":","*",":","a","u","d","i","o","/","m","p","4",":","*">>) @@
  ("http-get:*:AUDIO/MPEG:*" :>
     <<"h","t","t","p","-","g","e","t",":","*",":","A","U","D","I","O","/","M","P","E","G",":","*">>) @@
  ("http-get:*:audio/mpeg:*,http-get:*:audio/x-flac:*" :>
     <<"h","t","t","p","-","g","e","t",":","*",":","a","u","d","i","o","/","m","p","e","g",":","*",",","h","t","t","p","-","g","e","t",":","*",":","a","u","d","i","o","/","x","-","f","l","a","c",":","*">>) @@
  ("http-get:*:audio/x-wav:*,http-get:*:application/ogg:*" :>
     <<"h","t","t","p","-","g","e","t",":","*",":","a","u","d","i","o","/","x","-","w","a","v",":","*",",","h","t","t","p","-","g","e","t",":","*",":","a","p","p","l","i","c","a","t","i","o","n","/","o","g","g",":","*">>) @@
  ("http-get:*:audio/ogg:*,http-get:*:audio/aac:*" :>
     <<"h","t","t","p","-","g","e","t",":","*",":","a","u","d","i","o","/","o","g","g",":","*",",","h","t","t","p","-","g","e","t",":","*",":","a","u","d","i","o","/","a","a","c",":","*">>) @@
  ("http-get:*:video/mp4:*" :>
     <<"h","t","t","p","-","g","e","t",":","*",":","v","i","d","e","o","/","m","p","4",":","*">>) @@
  ("http-get:*:audio/x-mpeg:*" :>
     <<"h","t","t","p","-","g","e","t",":","*",":","a","u","d","i","o","/","x","-","m","p","e","g",":","*">>) @@
  ("http-get:*:audio/aac:*, http-get:*:audio/mp4:DLNA.ORG_PN=AAC_ISO" :>
     <<"h","t","t","p","-","g","e","t",":","*",":","a","u","d","i","o","/","a","a","c",":","*",","," ","h","t","t","p","-","g","e","t",":","*",":","a","u","d","i","o","/","m","p","4",":","D","L","N","A",".","O","R","G","_","P","N","=","A","A","C","_","I","S","O">>) @@
  ("rtsp-rtp-udp:*:audio/mpeg:*" :>
     <<"r","t","s","p","-","r","t","p","-","u","d","p",":","*",":","a","u","d","i","o","/","m","p","e","g",":","*">>) @@
  ("http-get:*:audio/mpeg:DLNA.ORG_PN=MP3&DLNA.ORG_OP=01" :>
     <<"h","t","t","p","-","g","e","t",":","*",":","a","u","d","i","o","/","m","p","e","g",":","D","L","N","A",".","O","R","G","_","P","N","=","M","P","3","&","D","L","N","A",".","O","R","G","_","O","P","=","0","1">>) @@
  (""  :> <<>>)

\* what one GetTransportInfo request comes to: "none" (_send_soap_request returned
\* None or an empty body), "malformed" (ET.fromstring raised ParseError), or the
\* CurrentTransportState of a body that parses
TransportAnswers == {"none", "malformed", "PLAYING", "STOPPED"}

\* the loop of get_transport_info from the given attempt on; answers[k] is what
\* the k-th request comes to; requests counts the requests issued
RECURSIVE TransportAttempts(_, _, _)
TransportAttempts(attempt, last, answers) ==
  IF attempt > last THEN [requests |-> attempt, state |-> "unavailable"]
  ELSE LET response == answers[attempt + 1]
       IN  IF response = "none"
           THEN IF attempt < last THEN TransportAttempts(attempt + 1, last, answers)
                ELSE [requests |-> attempt + 1, state |-> "unavailable"]
           ELSE IF response = "malformed"
           THEN TransportAttempts(attempt + 1, last, answers)
           ELSE [requests |-> attempt + 1, state |-> response]

\* a get_transport_info whose loop runs once more
get_transport_info_one_more(retries, answers) == TransportAttempts(0, retries + 1, answers)

\* get_transport_info(retries): for attempt in range(retries + 1)
get_transport_info(retries, answers) == TransportAttempts(0, retries, answers)

\* a get_protocol_info that ignores the status code
get_protocol_info_any_status(o) == IF o.kind = "response" THEN o.text ELSE ""

\* get_protocol_info: the text of the Sink element of a 200 answer, "" for None
get_protocol_info(o) ==
  IF o.kind = "response" /\ o.status = 200 THEN o.text ELSE ""

\* detect_capabilities for the outcome o of the GetProtocolInfo request
detect_capabilities(o) ==
  LET protocol_info == get_protocol_info(o)
      protocols == IF protocol_info = "" THEN <<>> ELSE Split(SinkChars[protocol_info], ",")
      \* the content formats looked for, per flag
      markers ==
          [mp3 |-> {<<"a","u","d","i","o","/","m","p","e","g">>, <<"a","u","d","i","o","/","m","p","3">>},
           aac |-> {<<"a","u","d","i","o","/","a","a","c">>, <<"a","u","d","i","o","/","x","-","a","a","c">>, <<"a","u","d","i","o","/","m","p","4">>},
           flac |-> {<<"a","u","d","i","o","/","f","l","a","c">>, <<"a","u","d","i","o","/","x","-","f","l","a","c">>},
           wav |-> {<<"a","u","d","i","o","/","w","a","v">>, <<"a","u","d","i","o","/","x","-","w","a","v">>},
           ogg |-> {<<"a","u","d","i","o","/","o","g","g">>, <<"a","u","d","i","o","/","x","-","o","g","g">>}]
      Found(flag) == \E i \in 1..Len(protocols) : \E m \in markers[flag] :
                       IsSubstr(m, Lower(protocols[i]))
  IN  [has |-> TRUE, fams |-> {flag \in DOMAIN markers : Found(flag)},
       raw |-> protocol_info]

\* can_play_format on a client with the capabilities caps (NoCaps: never
\* detected), o being the outcome of the GetProtocolInfo request if one is made:
\* the answer, whether the device was probed, and self.capabilities afterwards
can_play_format_detecting(caps, o, mime) ==
  LET capabilities == IF ~caps.has THEN detect_capabilities(o) ELSE caps
  IN  [ret |-> can_play_format(capabilities, mime), probed |-> ~caps.has,
       capabilities |-> capabilities]

\* Python's t.replace(c, r) for a pattern c of one character
RECURSIVE ReplaceAll(_, _, _)
ReplaceAll(t, c, r) ==
  IF t = <<>> THEN <<>>
  ELSE (IF Head(t) = c THEN r ELSE <<Head(t)>>) \o ReplaceAll(Tail(t), c, r)

\* an escaping that replaces the ampersand after the other characters
EscapedAmpersandLast(t) ==
  ReplaceAll(ReplaceAll(ReplaceAll(ReplaceAll(ReplaceAll(t,
    "<", <<"&","l","t",";">>), ">", <<"&","g","t",";">>),
    "\"", <<"&","q","u","o","t",";">>), "'", <<"&","a","p","o","s",";">>),
    "&", <<"&","a","m","p",";">>)

\* title_escaped and url_escaped of _build_didl_metadata: the five replace
\* calls, in the order of the source
Escaped(t) ==
  ReplaceAll(ReplaceAll(ReplaceAll(ReplaceAll(ReplaceAll(t,
    "&", <<"&","a","m","p",";">>), "<", <<"&","l","t",";">>),
    ">", <<"&","g","t",";">>), "\"", <<"&","q","u","o","t",";">>),
    "'", <<"&","a","p","o","s",";">>)

\* _get_protocol_info_for_mime: the declared entry used for the MIME type, with
\* the white space around it removed; <<>> for None
get_protocol_info_for_mime(caps, mime) ==
  LET protocols == Split(SinkChars[caps.raw], ",")
      lower == Lower(MimeChars[mime])
      mime_types_to_try ==
        IF IsSubstr(<<"a","a","c">>, lower)
        THEN << <<"a","u","d","i","o","/","m","p","4">>, <<"a","u","d","i","o","/","a","a","c">>,
                <<"a","u","d","i","o","/","a","a","c","p">>, <<"a","u","d","i","o","/","x","-","a","a","c">> >>
        ELSE IF IsSubstr(<<"m","p","3">>, lower) \/ IsSubstr(<<"m","p","e","g">>, lower)
        THEN << <<"a","u","d","i","o","/","m","p","e","g">>, <<"a","u","d","i","o","/","m","p","3">> >>
        ELSE << lower >>
      Matches(j, i) ==
        LET parts == Split(protocols[i], ":")
        IN  /\ Len(parts) >= 3
            /\ Lower(parts[3]) = mime_types_to_try[j]
            /\ IsSubstr(<<"h","t","t","p","-","g","e","t">>, Lower(protocols[i]))
      \* the position of the first match in the order of the two loops
      hits == { p \in (1..Len(mime_types_to_try)) \X (1..Len(protocols)) : Matches(p[1], p[2]) }
      Before(p, q) == p[1] < q[1] \/ (p[1] = q[1] /\ p[2] <= q[2])
      first == CHOOSE p \in hits : \A q \in hits : Before(p, q)
  IN  IF ~caps.has \/ caps.raw = "" \/ hits = {} THEN <<>>
      ELSE Strip(protocols[first[2]])

\* _build_didl_metadata: the three texts put into the DIDL-Lite template (the
\* content of dc:title, the protocolInfo attribute of res, the content of res)
build_didl_metadata(caps, url, title, mime) ==
  LET declared == get_protocol_info_for_mime(caps, mime)
      lower == Lower(MimeChars[mime])
      dlna_pn ==
        IF IsSubstr(<<"m","p","e","g">>, lower) \/ IsSubstr(<<"m","p","3">>, lower)
        THEN <<"M","P","3">>
        ELSE IF IsSubstr(<<"a","a","c">>, lower) \/ IsSubstr(<<"m","p","4">>, lower)
        THEN <<"A","A","C","_","I","S","O">>
        ELSE IF IsSubstr(<<"f","l","a","c">>, lower) THEN <<"F","L","A","C">>
        ELSE <<"M","P","3">>
      built == <<"h","t","t","p","-","g","e","t",":","*",":">> \o MimeChars[mime] \o
               <<":","D","L","N","A",".","O","R","G","_","P","N","=">> \o dlna_pn \o
               <<";","D","L","N","A",".","O","R","G","_","O","P","=","0","1",";","D","L","N","A",".","O","R","G","_","C","I","=","0",";","D","L","N","A",".","O","R","G","_","F","L","A","G","S","=","0","1","7","0","0","0","0","0","0","0","0","0","0","0","0","0","0","0","0","0","0","0","0","0","0","0","0","0","0","0","0","0">>
  IN  [title |-> Escaped(title),
       protocolInfo |-> IF declared = <<>> THEN built ELSE declared,
       res |-> Escaped(url)]

(***************************************************************************)
(* SSDP discovery (discovery.py).                                          *)
(***************************************************************************)
\* the LOCATION values of the network; LocationBase is scheme://host:port as
\* _fetch_device_info takes them from urlparse(location), port 80 by default
Locations == {"http://tv/desc.xml", "http://amp:8080/desc.xml"}
LocationBase ==
  ("http://tv/desc.xml" :> <<"h","t","t","p",":","/","/","t","v",":","8","0">>) @@
  ("http://amp:8080/desc.xml" :> <<"h","t","t","p",":","/","/","a","m","p",":","8","0","8","0">>)

\* _fetch_device_info returned None
NoInfo == [location |-> "", control_url |-> <<>>]

\* a service element of a description: hasType and type are its serviceType
\* element and the text of it, hasCtrl and ctrl its controlURL element and the
\* text of it; <<>> is the text None of an empty element
AvTransportService(hasCtrl, ctrl) ==
  [hasType |-> TRUE, type |-> <<"s","e","r","v","i","c","e",":","A","V","T","r","a","n","s","p","o","r","t",":","1">>, hasCtrl |-> hasCtrl, ctrl |-> ctrl]
Services ==
  { AvTransportService(TRUE, <<"/","u","p","n","p","/","c","o","n","t","r","o","l","/","a","v","t">>),
    AvTransportService(TRUE, <<"h","t","t","p",":","/","/","t","v",":","4","9","1","5","2","/","a","v","t">>),
    AvTransportService(TRUE, <<"A","V","T","r","a","n","s","p","o","r","t","/","c","t","r","l">>),
    AvTransportService(TRUE, <<>>),
    AvTransportService(FALSE, <<>>),
    [hasType |-> TRUE, type |-> <<"s","e","r","v","i","c","e",":","C","o","n","n","e","c","t","i","o","n","M","a","n","a","g","e","r",":","1">>,
     hasCtrl |-> TRUE, ctrl |-> <<"/","u","p","n","p","/","c","o","n","t","r","o","l","/","c","m">>],
    [hasType |-> FALSE, type |-> <<>>, hasCtrl |-> TRUE, ctrl |-> <<"/","u","p","n","p","/","c","o","n","t","r","o","l","/","x">>],
    [hasType |-> TRUE, type |-> <<>>, hasCtrl |-> TRUE, ctrl |-> <<"/","u","p","n","p","/","c","o","n","t","r","o","l","/","a","v","t">>] }

\* what the GET of a description yields: it raises, or answers with a status and
\* a body that is malformed, has no device element, or describes a device
Description(root, services) ==
  [kind |-> "response", status |-> 200, root |-> root, services |-> services]
Descriptions ==
  { [kind |-> "raise", status |-> 0, root |-> "malformed", services |-> <<>>],
    [kind |-> "response", status |-> 500, root |-> "device", services |-> <<>>],
    Description("malformed", <<>>), Description("no_device", <<>>) } \cup
  { Description("device", sv) : sv \in UNION {[1..n -> Services] : n \in 0..MaxServices} }

\* the index of the first service at which the loop over the services ends: its
\* serviceType text is None ('AVTransport' in None raises TypeError) or names
\* AVTransport (and, with needCtrl, it has a controlURL element); 0 when none
FirstAvTransport(services, needCtrl) ==
  LET hits == { i \in 1..Len(services) :
                  /\ services[i].hasType
                  /\ \/ services[i].type = <<>>
                     \/ /\ IsSubstr(<<"A","V","T","r","a","n","s","p","o","r","t">>, services[i].type)
                        /\ ~needCtrl \/ services[i].hasCtrl }
  IN  IF hits = {} THEN 0 ELSE CHOOSE i \in hits : \A j \in hits : i <= j

\* _find_av_transport_control_url: the control URL of the first AVTransport
\* service that has one, the default URL when there is none or an exception
find_av_transport_control_url(services, base) ==
  LET k == FirstAvTransport(services, TRUE)
      fallback == base \o <<"/","A","V","T","r","a","n","s","p","o","r","t","/","c","t","r","l">>
  IN  IF k = 0 THEN fallback
      ELSE IF services[k].type = <<>> \/ services[k].ctrl = <<>> THEN fallback
      ELSE IF StartsWith(services[k].ctrl, <<"h","t","t","p">>) THEN services[k].ctrl
      ELSE IF StartsWith(services[k].ctrl, <<"/">>) THEN base \o services[k].ctrl
      ELSE base \o <<"/">> \o services[k].ctrl

\* a _fetch_device_info that trusts the control URL
fetch_device_info_unverified(location, doc) ==
  IF doc.kind = "raise" \/ doc.status # 200 \/ doc.root # "device" THEN NoInfo
  ELSE [location |-> location,
        control_url |-> find_av_transport_control_url(doc.services, LocationBase[location])]

\* _fetch_device_info: None unless the description is fetched and parsed, has a
\* device element and, when the control URL is the default one, a service whose
\* type names AVTransport (an exception in that loop gives None as well)
fetch_device_info(location, doc) ==
  LET control_url == find_av_transport_control_url(doc.services, LocationBase[location])
      suffix == <<"/","A","V","T","r","a","n","s","p","o","r","t","/","c","t","r","l">>
      is_default == /\ Len(control_url) >= Len(suffix)
                    /\ SubSeq(control_url, Len(control_url) - Len(suffix) + 1,
                              Len(control_url)) = suffix
      k == FirstAvTransport(doc.services, FALSE)
      has_av_transport == k # 0 /\ doc.services[k].type # <<>>
  IN  IF doc.kind = "raise" \/ doc.status # 200 \/ doc.root # "device" THEN NoInfo
      ELSE IF is_default /\ ~has_av_transport THEN NoInfo
      ELSE [location |-> location, control_url |-> control_url]

\* the receive loop of discover: the LOCATION values in the order of their first
\* arrival (seen_locations); "" is a response without LOCATION header
SeenLocations(responses) ==
  LET first == { i \in 1..Len(responses) :
                   responses[i] # "" /\ \A j \in 1..(i - 1) : responses[j] # responses[i] }
      RECURSIVE Keep(_)
      Keep(i) == IF i > Len(responses) THEN <<>>
                 ELSE (IF i \in first THEN <<responses[i]>> ELSE <<>>) \o Keep(i + 1)
  IN  Keep(1)

\* a discover whose loop ends at the first callback that raises
CallbackCallsUntilError(devices, callback) ==
  IF callback = "none" THEN <<>>
  ELSE IF callback = "raises" /\ devices # <<>> THEN <<devices[1]>>
  ELSE devices

\* the devices handed to device_callback, in order: each appended device when a
\* callback is given; an exception of the callback is logged and the loop goes on
CallbackCalls(devices, callback) == IF callback = "none" THEN <<>> ELSE devices

\* discover for the input in: setup_fails (the socket calls raise), responses
\* (the LOCATION of each response read before the socket times out), docs (the
\* description behind each location), reversed (the futures complete in the
\* opposite order), cut (how many futures complete before as_completed raises
\* TimeoutError) and callback ("none", "ok" or "raises")
discover(in) ==
  LET locations == SeenLocations(in.responses)
      n == Len(locations)
      order == [i \in 1..n |-> IF in.reversed THEN locations[n + 1 - i] ELSE locations[i]]
      done == SubSeq(order, 1, IF in.cut < n THEN in.cut ELSE n)
      infos == [i \in 1..Len(done) |-> fetch_device_info(done[i], in.docs[done[i]])]
      devices == IF in.setup_fails THEN <<>> ELSE SelectSeq(infos, LAMBDA d : d # NoInfo)
  IN  [raises |-> FALSE, devices |-> devices,
       callbacks |-> CallbackCalls(devices, in.callback)]

(***************************************************************************)
(* Stream format detection (main.py, _detect_stream_format).               *)
(***************************************************************************)
\* what the HEAD request yields: it raises, carries no Content-Type, carries one
\* whose MIME part is empty (";"), or carries a MIME type
HeadResults == {"raise", "none", ";"} \cup Mimes
\* what _detect_format_with_ffprobe returns ("" for None)
ProbeResults == {"", "audio/aac"}

\* content_type.split(';')[0].strip()[:100]
HeadMime(head) == IF head = ";" THEN "" ELSE head

\* _detect_stream_format: format ("" for None or an empty MIME type), the cache and
\* the cache file after it, and which sources it consulted
\* a detection that does not look into the cache
DetectStreamFormatSkippingCache(c, f, u, t, head, probe) ==
  IF head \notin {"raise", "none"}
  THEN LET st == CacheSet(c, u, HeadMime(head), "head", t)
       IN  [fmt |-> HeadMime(head), c |-> st.c, file |-> st.file, wrote |-> TRUE,
            method |-> "head", head |-> TRUE, probe |-> FALSE]
  ELSE IF probe # ""
       THEN LET st == CacheSet(c, u, probe, "ffprobe", t)
            IN  [fmt |-> probe, c |-> st.c, file |-> st.file, wrote |-> TRUE,
                 method |-> "ffprobe", head |-> TRUE, probe |-> TRUE]
       ELSE [fmt |-> "", c |-> c, file |-> f, wrote |-> FALSE,
             method |-> "none", head |-> TRUE, probe |-> TRUE]

DetectStreamFormat(c, f, u, t, head, probe) ==
  LET g == CacheGet(c, u, t)
  IN  IF g.ret # NoEntry
      THEN [fmt |-> g.ret.mime_type, c |-> g.c, file |-> f, wrote |-> FALSE,
            method |-> "cache", head |-> FALSE, probe |-> FALSE]
      ELSE IF head \notin {"raise", "none"}
           THEN LET st == CacheSet(g.c, u, HeadMime(head), "head", t)
                IN  [fmt |-> HeadMime(head), c |-> st.c, file |-> st.file, wrote |-> TRUE,
                     method |-> "head", head |-> TRUE, probe |-> FALSE]
           ELSE IF probe # ""
                THEN LET st == CacheSet(g.c, u, probe, "ffprobe", t)
                     IN  [fmt |-> probe, c |-> st.c, file |-> st.file, wrote |-> TRUE,
                          method |-> "ffprobe", head |-> TRUE, probe |-> TRUE]
                ELSE [fmt |-> "", c |-> g.c, file |-> f, wrote |-> FALSE,
                      method |-> "none", head |-> TRUE, probe |-> TRUE]

(***************************************************************************)
(* The transcode-or-passthrough decision of /play (main.py 750-778).       *)
(***************************************************************************)
\* the decision without the HTTPS test
NeedsTranscodingIgnoringHttps(fmt, caps, u) ==
  ~(fmt # "" /\ caps.has /\ can_play_format(caps, fmt))

NeedsTranscoding(fmt, caps, u) ==
  ~(/\ fmt # ""
    /\ caps.has
    /\ can_play_format(caps, fmt)
    /\ ~UrlPrefixHttps(u))


(***************************************************************************)
(* Request threads of worker 1.                                            *)
(***************************************************************************)
\* a thread with no request: the locals of a handler and its response
Idle == [pc |-> "idle", op |-> "none", url |-> NoUrl, caps |-> NoCaps, fmt |-> "",
         needs |-> TRUE, purl |-> NoUrl, mine |-> None, self |-> None, prev |-> None,
         stopped |-> FALSE,
         soap |-> {}, pushed |-> NoUrl,
         code |-> 0, err |-> "", streaming |-> FALSE, crashed |-> FALSE,
         orphan |-> None, mime |-> ""]

\* a thread takes a new request when it has none or has answered the last one
Free(t) == req[t].pc \in {"idle", "done"}

\* a response: the handler returns
Respond(r, code, err) == [r EXCEPT !.pc = "done", !.code = code, !.err = err]

\* /play requests that will still create a streamer object
PendingCreates ==
  Cardinality({ t \in Threads : req[t].op = "play" /\
                  req[t].pc \in {"p_stopold", "p_detect", "p_create"} })

\* the handler's `except Exception`: if streamer: streamer.stop(); 500
ExceptPath(t, w, r) ==
  /\ SetWorld(IF streamer # None THEN Stop(w, streamer) ELSE w)
  /\ req' = [req EXCEPT ![t] = Respond(r, 500, "exception")]

\* play, lines 711-738: the stream URL, its validation, the selected device
PlayRecv(t, u) ==
  /\ Free(t)
  /\ nobj + PendingCreates < MaxStreamers
  /\ LET r == [Idle EXCEPT !.op = "play", !.url = u]
     IN  IF u = NoUrl
         THEN /\ req' = [req EXCEPT ![t] = Respond(r, 400, "no stream URL")]
              /\ UNCHANGED dm
         ELSE IF ~validate_stream_url(u)
         THEN /\ req' = [req EXCEPT ![t] = Respond(r, 400, "invalid stream URL")]
              /\ UNCHANGED dm
         ELSE /\ dm' = [dm EXCEPT ![1] = LoadState(dm[1], stateFile)]
              /\ LET dev == GetCurrentDevice(dm[1], stateFile)
                 IN  IF dev = NoDev
                     THEN req' = [req EXCEPT ![t] = Respond(r, 400, "no device selected")]
                     ELSE req' = [req EXCEPT ![t] = [r EXCEPT !.pc = "p_stopold", !.caps = dev.caps]]
  /\ UNCHANGED <<objs, nobj, streamer, dlna_client, alive, pidFile, portOwner, handlerProc>>
  /\ UNCHANGED <<cacheVars, now, call, stateFile, tmpFile, io, regRet, sel, lastWrite>>

\* a play that skips the stop of the existing stream
StopExistingSkipped(w, s) == w

\* play, lines 740-743: if streamer and streamer.is_running(): streamer.stop()
StopExisting(w, s) ==
  IF s = None THEN w
  ELSE LET r == IsRunning(w, s)
       IN  IF r.ret THEN Stop(r.w, s) ELSE r.w

PlayStopOld(t) ==
  /\ req[t].pc = "p_stopold"
  /\ SetWorld(StopExisting(World, streamer))
  /\ req' = [req EXCEPT ![t].pc = "p_detect", ![t].prev = streamer,
                        ![t].stopped = (streamer # None /\ IsRunning(World, streamer).ret)]
  /\ UNCHANGED <<nobj, streamer, dlna_client, cacheVars, now, call, regVars>>

\* play, lines 746-778: active_client.stop_if_playing(), format detection and the
\* decision
PlayDetect(t, state, head, probe) ==
  /\ req[t].pc = "p_detect"
  /\ LET d == DetectStreamFormat(cache[1], cacheFile, req[t].url, now, head, probe)
     IN  /\ cache' = [cache EXCEPT ![1] = d.c]
         /\ cacheFile' = d.file
         /\ persistTime' = IF d.wrote THEN now ELSE persistTime
         /\ cacheHist' = IF d.wrote
                         THEN [cacheHist EXCEPT ![req[t].url] = <<d.fmt, d.method, now>>]
                         ELSE cacheHist
         /\ req' = [req EXCEPT ![t].pc = "p_create",
                               ![t].soap = @ \cup StopIfPlayingSends(state),
                               ![t].fmt = d.fmt,
                               ![t].needs = NeedsTranscoding(d.fmt, req[t].caps, req[t].url)]
  /\ UNCHANGED <<objs, nobj, streamer, dlna_client, alive, pidFile, portOwner, handlerProc>>
  /\ UNCHANGED <<cacheRet, cacheOp, now, call, regVars>>

\* play, lines 783-790 and 810: streamer = AudioStreamer(...) / PassthroughStreamer(...)
PlayCreate(t) ==
  /\ req[t].pc = "p_create"
  /\ nobj < MaxStreamers
  /\ nobj' = nobj + 1
  /\ objs' = [objs EXCEPT ![nobj + 1] =
                IF req[t].needs THEN NewAudio ELSE NewPass]
  /\ streamer' = nobj + 1
  /\ req' = [req EXCEPT ![t].pc = "p_start", ![t].mine = nobj + 1]
  /\ UNCHANGED <<dlna_client, alive, pidFile, portOwner, handlerProc, cacheVars, now, call, regVars>>

\* play, lines 791 and 811: streamer.start(), up to the orphan cleanup of
\* AudioStreamer.start (streamer.py 167-172)
\* where the handler goes on when start() has returned: the transcoding branch
\* waits for the listener, the passthrough branch has playback_url = stream_url
AfterStart(r) ==
  IF r.needs THEN [r EXCEPT !.pc = "p_wait"]
  ELSE [r EXCEPT !.pc = "p_push", !.purl = r.url]

PlayStart(t) ==
  /\ req[t].pc = "p_start"
  /\ IF streamer = None
     THEN ExceptPath(t, World, req[t])
     ELSE IF objs[streamer].kind = "pass"
     THEN /\ SetWorld(PassStart(World, streamer))
          /\ req' = [req EXCEPT ![t] = AfterStart([@ EXCEPT !.self = streamer])]
     ELSE IF objs[streamer].running
     THEN /\ SetWorld(World)
          /\ req' = [req EXCEPT ![t] = AfterStart([@ EXCEPT !.self = streamer])]
     ELSE /\ SetWorld(CleanupOrphaned(World))
          /\ req' = [req EXCEPT ![t].pc = "p_spawn", ![t].self = streamer,
                                ![t].orphan = pidFile]
  /\ UNCHANGED <<nobj, streamer, dlna_client, cacheVars, now, call, regVars>>

\* AudioStreamer.start, lines 190-203: Popen, _save_pid, the handler's process; when
\* Popen raises, start() calls self.stop() and re-raises
PlaySpawn(t, popenOk) ==
  /\ req[t].pc = "p_spawn"
  /\ IF popenOk
     THEN /\ SetWorld(Spawn(World, req[t].self))
          /\ req' = [req EXCEPT ![t].pc = "p_bind"]
     ELSE ExceptPath(t, AudioStop(World, req[t].self), req[t])
  /\ UNCHANGED <<nobj, streamer, dlna_client, cacheVars, now, call, regVars>>

\* AudioStreamer.start, lines 205-225: the listener binds and running = True; when the
\* bind raises, start() calls self.stop() and re-raises
PlayBind(t, foreign) ==
  /\ req[t].pc = "p_bind"
  /\ IF CanBind(World, foreign)
     THEN /\ SetWorld(Bind(World, req[t].self))
          /\ req' = [req EXCEPT ![t] = AfterStart(@)]
     ELSE ExceptPath(t, AudioStop(World, req[t].self), req[t])
  /\ UNCHANGED <<nobj, streamer, dlna_client, cacheVars, now, call, regVars>>

\* play, lines 794-807: streamer.wait_until_ready(); on a timeout streamer.stop(), 500
PlayWait(t, connects) ==
  /\ req[t].pc = "p_wait"
  /\ IF streamer = None \/ objs[streamer].kind # "audio"
     THEN ExceptPath(t, World, req[t])
     ELSE IF connects /\ portOwner # None
     THEN /\ SetWorld(World)
          /\ req' = [req EXCEPT ![t].pc = "p_push", ![t].purl = TranscodedUrl]
     ELSE /\ SetWorld(Stop(World, streamer))
          /\ req' = [req EXCEPT ![t] = Respond(@, 500, "streaming server failed to start")]
  /\ UNCHANGED <<nobj, streamer, dlna_client, cacheVars, now, call, regVars>>

\* the mime_type play_url builds the DIDL-Lite metadata for when the caller passes
\* none, as play does (active_client.play_url(playback_url))
play_url_mime_type == "audio/mpeg"

\* play, lines 814-829: active_client.play_url(playback_url); on failure
\* streamer.stop(), 500; mime is the MIME type the metadata were built for
PlayPush(t, setOk, playOk) ==
  /\ req[t].pc = "p_push"
  /\ LET r == [req[t] EXCEPT !.soap = @ \cup PlayUrlSends(setOk), !.pushed = req[t].purl,
                             !.mime = play_url_mime_type]
     IN  IF PlayUrlResult(setOk, playOk)
         THEN /\ SetWorld(World)
              /\ req' = [req EXCEPT ![t] = Respond(r, 200, "")]
         ELSE IF streamer = None
         THEN ExceptPath(t, World, r)
         ELSE /\ SetWorld(Stop(World, streamer))
              /\ req' = [req EXCEPT ![t] = Respond(r, 500, "failed to start playback")]
  /\ UNCHANGED <<nobj, streamer, dlna_client, cacheVars, now, call, regVars>>

\* stop, lines 846-852: dlna_client.stop() inside its own try
StopRecv(t) ==
  /\ Free(t)
  /\ req' = [req EXCEPT ![t] = [Idle EXCEPT !.op = "stop", !.pc = "s_streamer",
                                            !.soap = IF dlna_client THEN {"Stop"} ELSE {}]]
  /\ UNCHANGED <<objs, nobj, streamer, dlna_client, alive, pidFile, portOwner, handlerProc>>
  /\ UNCHANGED <<cacheVars, now, call, regVars>>

\* stop, lines 854-861: if streamer: streamer.stop(); streamer = None
StopStreamer(t) ==
  /\ req[t].pc = "s_streamer"
  /\ SetWorld(IF streamer # None THEN Stop(World, streamer) ELSE World)
  /\ streamer' = None
  /\ req' = [req EXCEPT ![t] = Respond([@ EXCEPT !.prev = streamer], 200, "")]
  /\ UNCHANGED <<nobj, dlna_client, cacheVars, now, call, regVars>>

\* health, lines 534-540: streaming = streamer is not None and streamer.is_running()
Health(t) ==
  /\ Free(t)
  /\ LET r == IF streamer = None
              THEN [ret |-> FALSE, w |-> World, crash_callback |-> FALSE]
              ELSE IsRunning(World, streamer)
     IN  /\ SetWorld(r.w)
         /\ req' = [req EXCEPT ![t] = Respond([Idle EXCEPT !.op = "health",
                                                           !.streaming = r.ret,
                                                           !.crashed = r.crash_callback],
                                              200, "")]
  /\ UNCHANGED <<nobj, streamer, dlna_client, cacheVars, now, call, regVars>>

\* the transcoder subprocess exits by itself (the source ends, ffmpeg fails)
Crash(p) ==
  /\ p \in alive
  /\ alive' = alive \ {p}
  /\ UNCHANGED <<objs, nobj, streamer, dlna_client, pidFile, portOwner, handlerProc, req>>
  /\ UNCHANGED <<cacheVars, now, call, regVars>>


(***************************************************************************)
(* Registry operations of a worker.  Each DeviceManager method runs under  *)
(* the instance's lock; here a method is one step.                         *)
(***************************************************************************)
\* what a registry read returned; fresh: no registry write completed since
\* (quiet: no registry write was in progress when the read ran)
NoRet == [op |-> "none", w |-> 0, ip |-> "", dev |-> NoDev, list |-> <<>>, age |-> NoTime,
          fresh |-> FALSE, quiet |-> FALSE]

\* an earlier read result is older than the write that completes: it is dropped
Stale(rr) == NoRet

\* what discovery can return: the renderers that answered, in order
ScanResults ==
  { <<>> } \cup { <<d>> : d \in NetDevices }
           \cup { <<d, e>> : d \in {x \in NetDevices : x.id = "uuid:A"},
                             e \in {x \in NetDevices : x.id = "uuid:B"} }

\* the snapshot after select_device(d), clear_device() and update_device_cache(l)
AfterSelect(m, d) == [m EXCEPT !.current_device = d]
AfterClear(m) == [m EXCEPT !.current_device = NoDev]
AfterUpdateCache(m, l, t) ==
  [m EXCEPT !.cached_devices = l, !.last_scan_time = t, !.aliased = FALSE]

\* DeviceManager.select_device
RegSelect(w, d) ==
  /\ dm' = [dm EXCEPT ![w] = AfterSelect(dm[w], d)]
  /\ stateFile' = SavedFile(AfterSelect(dm[w], d))
  /\ regRet' = Stale(regRet)
  /\ lastWrite' = [NoWrite EXCEPT !.op = "select", !.w = w, !.dev = d]
  /\ UNCHANGED <<streamVars, cacheVars, now, call, tmpFile, io, sel>>

\* DeviceManager.clear_device
RegClear(w) ==
  /\ dm' = [dm EXCEPT ![w] = AfterClear(dm[w])]
  /\ stateFile' = SavedFile(AfterClear(dm[w]))
  /\ regRet' = Stale(regRet)
  /\ lastWrite' = [NoWrite EXCEPT !.op = "clear", !.w = w]
  /\ UNCHANGED <<streamVars, cacheVars, now, call, tmpFile, io, sel>>

\* DeviceManager.update_device_cache (GET /devices?force_scan=true, main.py 564-570)
RegUpdateCache(w, l) ==
  /\ dm' = [dm EXCEPT ![w] = AfterUpdateCache(dm[w], l, now)]
  /\ stateFile' = SavedFile(AfterUpdateCache(dm[w], l, now))
  /\ regRet' = Stale(regRet)
  /\ lastWrite' = [NoWrite EXCEPT !.op = "update", !.w = w, !.list = l, !.time = now]
  /\ UNCHANGED <<streamVars, cacheVars, now, call, tmpFile, io, sel>>

\* the reading methods: get_current_device, get_cached_devices, get_cache_age,
\* find_device_in_cache(ip)
RegRead(w, op, ip) ==
  /\ io[w].pc = "idle"
  /\ dm' = [dm EXCEPT ![w] = LoadState(dm[w], stateFile)]
  /\ LET r == [NoRet EXCEPT !.op = op, !.w = w, !.fresh = TRUE,
                            !.quiet = (\A v \in Workers : io[v].pc = "idle")]
     IN  regRet' =
           CASE op = "current" -> [r EXCEPT !.dev = GetCurrentDevice(dm[w], stateFile)]
             [] op = "cached"  -> [r EXCEPT !.list = GetCachedDevices(dm[w], stateFile)]
             [] op = "age"     -> [r EXCEPT !.age = GetCacheAge(dm[w], stateFile, now)]
             [] op = "find"    -> [r EXCEPT !.ip = ip,
                                            !.dev = FindDeviceInCache(dm[w], stateFile, ip)]
  /\ UNCHANGED <<streamVars, cacheVars, now, call, stateFile, tmpFile, io, sel, lastWrite>>

ReadOps == {"current", "cached", "age", "find"}

(***************************************************************************)
(* POST /devices/select (main.py, device_select), per worker.              *)
(***************************************************************************)
NoSel == [pc |-> "idle", ip |-> "", dev |-> NoDev, src |-> "", code |-> 0]

\* the characters of the ip values of the model
IpChars ==
  ("10.0.0.1"        :> <<"1","0",".","0",".","0",".","1">>) @@
  ("10.0.0.2"        :> <<"1","0",".","0",".","0",".","2">>) @@
  ("999.999.999.999" :> <<"9","9","9",".","9","9","9",".","9","9","9",".","9","9","9">>) @@
  (""                :> <<>>)

\* the value of a run of decimal digits
RECURSIVE DecimalValue(_)
DecimalValue(ds) ==
  LET value == ("0" :> 0) @@ ("1" :> 1) @@ ("2" :> 2) @@ ("3" :> 3) @@ ("4" :> 4) @@
               ("5" :> 5) @@ ("6" :> 6) @@ ("7" :> 7) @@ ("8" :> 8) @@ ("9" :> 9)
  IN  IF ds = <<>> THEN 0
      ELSE 10 * DecimalValue(SubSeq(ds, 1, Len(ds) - 1)) + value[ds[Len(ds)]]

\* validate_ip_address on the characters of ip.  ip_pattern.match(ip) for
\* ^[0-9]{1,3}\.[0-9]{1,3}\.[0-9]{1,3}\.[0-9]{1,3}$ : `$` matches at the end of the
\* string and also just before a newline that ends the string.  Then every octet
\* of ip.split('.') is at most 255; int(octet) ignores white space around the digits.
ValidateIpChars(t) ==
  LET body == IF t # <<>> /\ t[Len(t)] = "\n" THEN SubSeq(t, 1, Len(t) - 1) ELSE t
      groups == Split(body, ".")
      IsGroup(g) == (Len(g) \in 1..3) /\
                    (\A j \in 1..Len(g) : g[j] \in {"0","1","2","3","4","5","6","7","8","9"})
      octets == Split(t, ".")
  IN  /\ Len(groups) = 4 /\ \A i \in 1..4 : IsGroup(groups[i])
      /\ \A i \in 1..Len(octets) : DecimalValue(Strip(octets[i])) <= 255

validate_ip_address(ip) == ValidateIpChars(IpChars[ip])

\* lines 594-620: validation, then the current device and the cache are consulted
SelRecv(w, ip) ==
  /\ sel[w].pc \in {"idle", "done"}
  /\ IF ip = "" \/ ~validate_ip_address(ip)
     THEN /\ sel' = [sel EXCEPT ![w] = [NoSel EXCEPT !.pc = "done", !.ip = ip, !.code = 400]]
          /\ UNCHANGED dm
     ELSE LET current == GetCurrentDevice(dm[w], stateFile)
              cached  == FindDeviceInCache(dm[w], stateFile, ip)
          IN  /\ dm' = [dm EXCEPT ![w] = LoadState(dm[w], stateFile)]
              /\ sel' = [sel EXCEPT ![w] =
                   IF current # NoDev /\ current.ip = ip
                   THEN [NoSel EXCEPT !.pc = "sel_detect", !.ip = ip, !.dev = current,
                                      !.src = "current"]
                   ELSE IF cached # NoDev
                   THEN [NoSel EXCEPT !.pc = "sel_detect", !.ip = ip, !.dev = cached,
                                      !.src = "cache"]
                   ELSE [NoSel EXCEPT !.pc = "sel_scan", !.ip = ip]]
  /\ UNCHANGED <<streamVars, cacheVars, now, call, stateFile, tmpFile, io, regRet, lastWrite>>

\* lines 622-640: the scan, update_device_cache(devices), the direct connection
SelScan(w, devices, direct) ==
  /\ sel[w].pc = "sel_scan"
  /\ direct \in {NoDev} \cup { d \in NetDevices : d.ip = sel[w].ip }
  /\ LET m1    == [AfterUpdateCache(dm[w], devices, now) EXCEPT !.aliased = TRUE]
         found == FirstWithIp(devices, sel[w].ip)
     IN  /\ dm' = [dm EXCEPT ![w] = m1]
         /\ stateFile' = SavedFile(m1)
         /\ regRet' = Stale(regRet)
         /\ lastWrite' = [NoWrite EXCEPT !.op = "update", !.w = w, !.list = devices, !.time = now]
         /\ sel' = [sel EXCEPT ![w] =
              IF found # NoDev
              THEN [@ EXCEPT !.pc = "sel_detect", !.dev = found, !.src = "scan"]
              ELSE IF direct # NoDev
              THEN [@ EXCEPT !.pc = "sel_detect", !.dev = direct, !.src = "direct"]
              ELSE [NoSel EXCEPT !.pc = "done", !.ip = sel[w].ip, !.code = 404]]
  /\ UNCHANGED <<streamVars, cacheVars, now, call, tmpFile, io>>

\* device_info['capabilities'] = capabilities, seen through the scan's list when the
\* device is an element of it and the snapshot still holds that list
WithAliasedCaps(m, src, ip, d) ==
  IF src = "scan" /\ m.aliased
  THEN [m EXCEPT !.cached_devices =
          [i \in 1..Len(@) |-> IF @[i] = FirstWithIp(@, ip) THEN d ELSE @[i]]]
  ELSE m

\* lines 642-666: detect_capabilities, select_device, dlna_client = client
SelDetect(w, caps) ==
  /\ sel[w].pc = "sel_detect"
  /\ LET d  == WithCaps(sel[w].dev, caps)
         m1 == AfterSelect(WithAliasedCaps(dm[w], sel[w].src, sel[w].ip, d), d)
     IN  /\ dm' = [dm EXCEPT ![w] = m1]
         /\ stateFile' = SavedFile(m1)
         /\ regRet' = Stale(regRet)
         /\ lastWrite' = [NoWrite EXCEPT !.op = "select", !.w = w, !.dev = d]
         /\ sel' = [sel EXCEPT ![w] = [NoSel EXCEPT !.pc = "done", !.ip = sel[w].ip, !.dev = d,
                                                   !.code = 200]]
  /\ dlna_client' = IF w = 1 THEN TRUE ELSE dlna_client
  /\ UNCHANGED <<objs, nobj, streamer, alive, pidFile, portOwner, handlerProc, req>>
  /\ UNCHANGED <<cacheVars, now, call, tmpFile, io>>

\* the clock advances
Tick ==
  /\ now < MaxTime
  /\ now' = now + 1
  /\ cacheRet' = [cacheRet EXCEPT !.fresh = FALSE]
  /\ regRet' = IF regRet.op = "age" THEN NoRet ELSE regRet
  /\ UNCHANGED <<streamVars, cache, cacheFile, persistTime, cacheHist, cacheOp>>
  /\ UNCHANGED <<dm, stateFile, tmpFile, io, sel, lastWrite, call>>

(***************************************************************************)
(* Stream format cache operations of worker 1.                             *)
(***************************************************************************)
NoCacheRet == [url |-> NoUrl, entry |-> NoEntry, fresh |-> FALSE]
NoHist == <<"", "none", NoTime>>
CacheUrls == {"http://radio/a", "https://radio/b"}
Methods == {"head", "ffprobe"}

\* stream_cache.set(url, mime, method)
CacheSetCall(u, mime, method) ==
  /\ LET st == CacheSet(cache[1], u, mime, method, now)
     IN  /\ cache' = [cache EXCEPT ![1] = st.c]
         /\ cacheFile' = st.file
  /\ persistTime' = now
  /\ cacheHist' = [cacheHist EXCEPT ![u] = <<mime, method, now>>]
  /\ cacheRet' = [cacheRet EXCEPT !.fresh = FALSE]
  /\ UNCHANGED <<streamVars, cacheOp, now, call, regVars>>

\* stream_cache.get(url)
CacheGetCall(u) ==
  /\ LET g == CacheGet(cache[1], u, now)
     IN  /\ cache' = [cache EXCEPT ![1] = g.c]
         /\ cacheRet' = [url |-> u, entry |-> g.ret, fresh |-> TRUE]
  /\ UNCHANGED <<streamVars, cacheFile, persistTime, cacheHist, cacheOp, now, call, regVars>>

\* stream_cache.clear()
CacheClearCall ==
  /\ LET st == CacheClear(now)
     IN  /\ cache' = [cache EXCEPT ![1] = st.c]
         /\ cacheFile' = st.file
  /\ persistTime' = now
  /\ cacheHist' = [u \in DOMAIN cacheHist |-> NoHist]
  /\ cacheRet' = [cacheRet EXCEPT !.fresh = FALSE]
  /\ UNCHANGED <<streamVars, cacheOp, now, call, regVars>>


(***************************************************************************)
(* The same calls taken by the request threads of worker 1 side by side.   *)
(* A thread can be switched out between two statements of a method; a      *)
(* _save_cache is taken as one step.                                       *)
(***************************************************************************)
\* no call on the cache: entry and keys are the locals of the call, raised the
\* exception that ended it, detached: self.cache was rebound under an iteration
NoCacheOp == [op |-> "none", pc |-> "idle", url |-> NoUrl, entry |-> NoEntry,
              keys |-> {}, raised |-> "", detached |-> FALSE]

CacheIdle(t) == cacheOp[t].pc \in {"idle", "done"}

\* the call of thread t goes on to pc, or has returned or raised
CacheOpStep(t, op) ==
  /\ cacheOp' = [cacheOp EXCEPT ![t] = op]
  /\ UNCHANGED <<streamVars, cacheRet, cacheHist, now, call, regVars>>

\* get, lines 108-116: the entry is looked up and its age is tested
GetLookup(t, u) ==
  /\ CacheIdle(t)
  /\ LET key == CacheKey(u)
         op  == [NoCacheOp EXCEPT !.op = "get", !.url = u]
     IN  IF key \notin DOMAIN cache[1]
         THEN CacheOpStep(t, [op EXCEPT !.pc = "done"])
         ELSE IF Expired(cache[1][key], now)
         THEN CacheOpStep(t, [op EXCEPT !.pc = "g_del", !.entry = cache[1][key]])
         ELSE CacheOpStep(t, [op EXCEPT !.pc = "done", !.entry = cache[1][key]])
  /\ UNCHANGED <<cache, cacheFile, persistTime>>

\* get, line 118: del self.cache[key]
GetDelete(t) ==
  /\ cacheOp[t].pc = "g_del"
  /\ LET key == CacheKey(cacheOp[t].url)
     IN  IF key \in DOMAIN cache[1]
         THEN /\ cache' = [cache EXCEPT ![1] = [k \in DOMAIN @ \ {key} |-> @[k]]]
              /\ CacheOpStep(t, [cacheOp[t] EXCEPT !.pc = "done", !.entry = NoEntry])
         ELSE /\ cache' = cache
              /\ CacheOpStep(t, [cacheOp[t] EXCEPT !.pc = "done", !.entry = NoEntry,
                                                   !.raised = "KeyError"])
  /\ UNCHANGED <<cacheFile, persistTime>>

\* set, lines 133-142: the entry is built and stored in self.cache
SetStore(t, u, mime, method) ==
  /\ CacheIdle(t)
  /\ LET key   == CacheKey(u)
         entry == [url |-> u, mime_type |-> mime, detection_method |-> method, timestamp |-> now]
     IN  /\ cache' = [cache EXCEPT ![1] = [k \in DOMAIN @ \cup {key} |-> IF k = key THEN entry ELSE @[k]]]
         /\ CacheOpStep(t, [NoCacheOp EXCEPT !.op = "set", !.pc = "save", !.url = u, !.entry = entry])
  /\ UNCHANGED <<cacheFile, persistTime>>

\* clear, line 149: self.cache = {}; an iteration in progress keeps the old dict
ClearRebind(t) ==
  /\ CacheIdle(t)
  /\ cache' = [cache EXCEPT ![1] = <<>>]
  /\ cacheOp' = [x \in Threads |->
                   IF x = t THEN [NoCacheOp EXCEPT !.op = "clear", !.pc = "save"]
                   ELSE IF cacheOp[x].pc = "iter" THEN [cacheOp[x] EXCEPT !.detached = TRUE]
                   ELSE cacheOp[x]]
  /\ UNCHANGED <<streamVars, cacheFile, persistTime, cacheRet, cacheHist, now, call, regVars>>

\* set, line 143, and clear, line 150: self._save_cache(), then the call returns
SaveAndReturn(t) ==
  /\ cacheOp[t].pc = "save"
  /\ LET st == SaveCache(cache[1], now)
     IN  /\ cache' = [cache EXCEPT ![1] = st.c]
         /\ cacheFile' = st.file
  /\ persistTime' = now
  /\ CacheOpStep(t, [cacheOp[t] EXCEPT !.pc = "done"])

\* streams_cached, line 917: the loop over stream_cache.cache.items() begins
DumpBegin(t) ==
  /\ CacheIdle(t)
  /\ CacheOpStep(t, [NoCacheOp EXCEPT !.op = "streams_cached", !.keys = DOMAIN cache[1],
                                      !.pc = IF DOMAIN cache[1] = {} THEN "done" ELSE "iter"])
  /\ UNCHANGED <<cache, cacheFile, persistTime>>

\* streams_cached: the iterator is asked for the next item; a dict whose size
\* changed since the loop began makes it raise RuntimeError
DumpNext(t) ==
  /\ cacheOp[t].pc = "iter"
  /\ CacheOpStep(t, [cacheOp[t] EXCEPT
        !.pc = "done",
        !.raised = IF ~cacheOp[t].detached
                      /\ Cardinality(DOMAIN cache[1]) # Cardinality(cacheOp[t].keys)
                   THEN "RuntimeError" ELSE ""])
  /\ UNCHANGED <<cache, cacheFile, persistTime>>

(***************************************************************************)
(* Initial states: the service has just started.  A previous run may have  *)
(* left a PID file behind, with the process it names still alive or gone.  *)
(***************************************************************************)
\* the pid of a transcoder left by a previous run of the service
OrphanPid == MaxStreamers + 1

\* no function was called on its own
NoCall == [fn |-> "none", in |-> "", done |-> FALSE, out |-> ""]

\* a function of the program about to be called on the input in
PendingCall(fn, in) == [fn |-> fn, in |-> in, done |-> FALSE, out |-> ""]

\* the call returns out
Apply(fn, out) ==
  /\ call.fn = fn
  /\ ~call.done
  /\ call' = [call EXCEPT !.done = TRUE, !.out = out]
  /\ UNCHANGED <<streamVars, cacheVars, now, regVars>>

InitCommon ==
  /\ objs = [i \in 1..MaxStreamers |-> NoObj]
  /\ nobj = 0
  /\ streamer = None
  /\ dlna_client = FALSE
  /\ portOwner = None
  /\ handlerProc = None
  /\ req = [t \in Threads |-> Idle]
  /\ cache = [w \in Workers |-> <<>>]
  /\ cacheFile = NoCacheFile
  /\ persistTime = NoTime
  /\ cacheRet = NoCacheRet
  /\ cacheHist = [u \in Urls |-> NoHist]
  /\ cacheOp = [t \in Threads |-> NoCacheOp]
  /\ now = 0
  /\ dm = [w \in Workers |-> EmptySnapshot]
  /\ stateFile = NoFile
  /\ tmpFile = NoFile
  /\ io = [w \in Workers |-> NoIo]
  /\ regRet = NoRet
  /\ sel = [w \in Workers |-> NoSel]
  /\ lastWrite = NoWrite

Init ==
  /\ InitCommon
  /\ call = NoCall
  /\ \/ alive = {} /\ pidFile = None
     \/ alive = {OrphanPid} /\ pidFile = OrphanPid
     \/ alive = {} /\ pidFile = OrphanPid

(***************************************************************************)
(* The sequential service: one request at a time (thread 1 of worker 1).   *)
(***************************************************************************)
\* the steps of a /play, /stop or /health request of thread t, for the given
\* streamUrl inputs; foreigns: whether a process outside the service may occupy
\* the stream port when a listener binds
PlaybackStep(t, urls, foreigns) ==
  \/ \E u \in urls : PlayRecv(t, u)
  \/ PlayStopOld(t)
  \/ \E state \in TransportStates, head \in HeadResults, probe \in ProbeResults :
       PlayDetect(t, state, head, probe)
  \/ PlayCreate(t)
  \/ PlayStart(t)
  \/ \E popenOk \in BOOLEAN : PlaySpawn(t, popenOk)
  \/ \E foreign \in foreigns : PlayBind(t, foreign)
  \/ \E connects \in BOOLEAN : PlayWait(t, connects)
  \/ \E setOk \in BOOLEAN, playOk \in BOOLEAN : PlayPush(t, setOk, playOk)
  \/ StopRecv(t)
  \/ StopStreamer(t)
  \/ Health(t)

\* the steps of a /devices/select request of worker w, for the given request
\* inputs, discovery results and detected capabilities
SelectStep(w, ips, scans, probed) ==
  \/ \E ip \in ips : SelRecv(w, ip)
  \/ \E devices \in scans, direct \in {NoDev} \cup NetDevices : SelScan(w, devices, direct)
  \/ \E caps \in probed : SelDetect(w, caps)

\* the sequential service is asked for one renderer
SeqIps == {"10.0.0.1", ""}
\* and discovery finds nothing: the renderer is reached by the direct connection
SeqScans == { <<>> }

Next ==
  \/ sel[1].pc \in {"idle", "done"} /\ PlaybackStep(1, Urls \cup {NoUrl}, BOOLEAN)
  \/ Free(1) /\ SelectStep(1, SeqIps, SeqScans, ProbedCaps)
  \/ \E p \in 1..MaxStreamers : Crash(p)

Spec == Init /\ [][Next]_vars


(***************************************************************************)
(* Properties of the sequential service.                                   *)
(***************************************************************************)
Objects == 1..MaxStreamers

ConcUrls == {"http://radio/a", NoUrl}

\* the registry after POST /devices/select found the renderer by a direct connection
SelectedSnapshot(caps) ==
  AfterSelect(AfterUpdateCache(EmptySnapshot, <<>>, 0),
              WithCaps(CHOOSE d \in NetDevices : d.ip = "10.0.0.1", caps))

InitConc ==
  /\ objs = [i \in 1..MaxStreamers |-> NoObj]
  /\ nobj = 0
  /\ streamer = None
  /\ dlna_client = TRUE
  /\ alive = {}
  /\ pidFile = None
  /\ portOwner = None
  /\ handlerProc = None
  /\ req = [t \in Threads |-> Idle]
  /\ cache = [w \in Workers |-> <<>>]
  /\ cacheFile = NoCacheFile
  /\ persistTime = NoTime
  /\ cacheRet = NoCacheRet
  /\ cacheHist = [u \in Urls |-> NoHist]
  /\ cacheOp = [t \in Threads |-> NoCacheOp]
  /\ now = 0
  /\ \E caps \in {Mp3Caps, AacCaps} :
       /\ dm = [w \in Workers |-> IF w = 1 THEN SelectedSnapshot(caps) ELSE EmptySnapshot]
       /\ stateFile = SavedFile(SelectedSnapshot(caps))
  /\ tmpFile = NoFile
  /\ io = [w \in Workers |-> NoIo]
  /\ regRet = NoRet
  /\ sel = [w \in Workers |-> NoSel]
  /\ lastWrite = NoWrite
  /\ call = NoCall

NextConc ==
  \/ \E t \in Threads : PlaybackStep(t, ConcUrls, {FALSE})
  \/ \E p \in 1..MaxStreamers : Crash(p)

SpecConc == InitConc /\ [][NextConc]_vars


\* every request has returned
AllReturned == \A t \in Threads : Free(t)

\* a step in which the orphan cleanup of some start() kills the transcoder of a
\* session that is running and stays so
KilledByStart ==
  \E o \in Objects :
    /\ objs[o].running /\ objs'[o].running
    /\ objs[o].proc \in alive /\ objs[o].proc \notin alive'
    /\ pidFile = objs[o].proc
    /\ \E t \in Threads : req[t].pc = "p_start" /\ req'[t].pc = "p_spawn"

\* C2: under any interleaving of concurrent /play and /stop requests there are never
\* two live transcoder subprocesses, no start() kills the subprocess of a running
\* session, and once all requests have returned the global streamer designates the
\* only session that still holds a subprocess or a listener.
SerializedStartStop ==
  /\ [](Cardinality(alive) <= 1)
  /\ [][~KilledByStart]_vars
  /\ [](AllReturned =>
          \A o \in Objects : objs[o].proc \in alive \/ objs[o].server => streamer = o)

\* a /play answered 500 after its streamer was started: the wait for the listener
\* timed out, or play_url reported failure
FailedAfterStart(t) ==
  /\ req[t].op = "play" /\ req[t].pc = "done" /\ req[t].code = 500
  /\ req[t].err \in {"streaming server failed to start", "failed to start playback"}

Created == req[1].op = "play" /\ req[1].mine # None

\* C4: /play chooses passthrough if and only if a format was detected, the selected
\* device has stored capabilities, can_play_format(format) holds and the stream URL
\* is not HTTPS; otherwise it chooses transcoding, and a successful response
\* reports transcoding = true exactly when it transcodes.
PassthroughIffNativeAndNotHttps ==
  Created =>
    /\ objs[req[1].mine].kind = "pass" <=>
         /\ req[1].fmt # ""
         /\ req[1].caps.has
         /\ can_play_format(req[1].caps, req[1].fmt)
         /\ UrlScheme(req[1].url) # "https"
    /\ objs[req[1].mine].kind = "audio" <=> req[1].needs

\* an HTTPS source the device supports natively was transcoded and is playing
HttpsForcedTranscoding ==
  /\ Created /\ req[1].pc = "done" /\ req[1].code = 200
  /\ UrlScheme(req[1].url) = "https"
  /\ can_play_format(req[1].caps, req[1].fmt)
  /\ req[1].needs
  /\ objs[req[1].mine].kind = "audio" /\ objs[req[1].mine].running

\* C5: a passthrough /play spawns no transcoder subprocess, binds no listener and
\* writes no PID file; the URL pushed to the device and the playback_url of the
\* response are the original stream_url, and the response reports
\* transcoding = false.
PassthroughIsInert ==
  Created /\ objs[req[1].mine].kind = "pass" =>
    /\ objs[req[1].mine].proc = None
    /\ ~objs[req[1].mine].server
    /\ pidFile # req[1].mine /\ portOwner # req[1].mine /\ handlerProc # req[1].mine
    /\ req[1].mine \notin alive
    /\ req[1].pushed \in {NoUrl, req[1].url}
    /\ (req[1].pc = "done" /\ req[1].code = 200 =>
          req[1].purl = req[1].url /\ req[1].pushed = req[1].url /\ ~req[1].needs)

\* a passthrough /play succeeded
PassthroughPlaying ==
  /\ Created /\ req[1].pc = "done" /\ req[1].code = 200
  /\ objs[req[1].mine].kind = "pass" /\ objs[req[1].mine].running
  /\ req[1].pushed = req[1].url

\* the step in which thread 1 takes a /play request
TakesPlay == Free(1) /\ req'[1] # req[1] /\ req'[1].op = "play"

\* the request has no stream URL, its URL is not an http(s) URL with a host, or no
\* device is selected
MustReject(u) ==
  \/ u = NoUrl
  \/ UrlScheme(u) \notin {"http", "https"}
  \/ UrlHost(u) = <<>>
  \/ GetCurrentDevice(dm[1], stateFile) = NoDev

\* C6: a /play rejected with a client error (no stream URL, invalid stream URL, no
\* device selected) answers 400 and has no side effect: the streamer objects, the
\* transcoder processes, the listener and the PID file are untouched, no SOAP
\* command is sent, no detection runs and neither the registry nor the stream
\* format cache is written.
RejectedPlayHasNoEffect ==
  [][TakesPlay /\ MustReject(req'[1].url) =>
       /\ req'[1].pc = "done" /\ req'[1].code = 400
       /\ req'[1].soap = {} /\ req'[1].fmt = ""
       /\ UNCHANGED <<objs, nobj, streamer, alive, pidFile, portOwner, handlerProc>>
       /\ UNCHANGED <<stateFile, tmpFile, lastWrite, cacheVars>>]_vars

\* a /play was rejected while a transcoding session is running
RejectedWhilePlaying ==
  /\ req[1].op = "play" /\ req[1].pc = "done" /\ req[1].code = 400
  /\ streamer # None /\ objs[streamer].running /\ objs[streamer].proc \in alive
  /\ objs[streamer].server


(***************************************************************************)
(* The stream format cache alone: set, get and clear calls of worker 1     *)
(* while the clock advances.                                               *)
(***************************************************************************)
CacheMimes == {"audio/mpeg", "audio/aac"}

InitQuiet == InitCommon /\ alive = {} /\ pidFile = None /\ call = NoCall

NextCache ==
  \/ \E u \in CacheUrls, mime \in CacheMimes, method \in Methods : CacheSetCall(u, mime, method)
  \/ \E u \in CacheUrls : CacheGetCall(u)
  \/ CacheClearCall
  \/ Tick

SpecCache == InitQuiet /\ [][NextCache]_vars

\* the calls on the cache of two request threads, interleaved
NextCacheThreads ==
  \/ \E t \in Threads, u \in CacheUrls : GetLookup(t, u)
  \/ \E t \in Threads : GetDelete(t)
  \/ \E t \in Threads, u \in CacheUrls : SetStore(t, u, "audio/mpeg", "head")
  \/ \E t \in Threads : ClearRebind(t)
  \/ \E t \in Threads : SaveAndReturn(t)
  \/ \E t \in Threads : DumpBegin(t)
  \/ \E t \in Threads : DumpNext(t)
  \/ Tick

SpecCacheThreads == InitQuiet /\ [][NextCacheThreads]_vars

\* set and get called in either worker process: each worker has the cache it
\* loaded when it was created, and all share stream_format_cache.json
WorkerSet(w, u, mime, method) ==
  /\ LET st == CacheSet(cache[w], u, mime, method, now)
     IN  /\ cache' = [cache EXCEPT ![w] = st.c]
         /\ cacheFile' = st.file
  /\ persistTime' = now
  /\ cacheHist' = [cacheHist EXCEPT ![u] = <<mime, method, now>>]
  /\ cacheRet' = [cacheRet EXCEPT !.fresh = FALSE]
  /\ UNCHANGED <<streamVars, cacheOp, now, call, regVars>>

WorkerGet(w, u) ==
  /\ LET g == CacheGet(cache[w], u, now)
     IN  /\ cache' = [cache EXCEPT ![w] = g.c]
         /\ cacheRet' = [url |-> u, entry |-> g.ret, fresh |-> TRUE]
  /\ UNCHANGED <<streamVars, cacheFile, persistTime, cacheHist, cacheOp, now, call, regVars>>

NextCacheWorkers ==
  \/ \E u \in CacheUrls : WorkerSet(1, u, "audio/mpeg", "head")
  \/ WorkerSet(2, "https://radio/b", "audio/aac", "ffprobe")
  \/ \E w \in Workers, u \in CacheUrls : WorkerGet(w, u)
  \/ Tick

SpecCacheWorkers == InitQuiet /\ [][NextCacheWorkers]_vars

\* get(url) has just returned, and nothing happened since
JustGot(u) == cacheRet.fresh /\ cacheRet.url = u

\* C7: a get(url) that follows a set(url, mime, method) within the TTL returns that
\* mime type and detection method; once the TTL has elapsed get(url) returns
\* nothing; and a persisted cache document holds no entry that was expired when
\* the document was written.
CacheSetGetWithinTtl ==
  /\ \A u \in CacheUrls :
       JustGot(u) /\ cacheHist[u] # NoHist =>
         IF now - cacheHist[u][3] <= TTL
         THEN /\ cacheRet.entry.mime_type = cacheHist[u][1]
              /\ cacheRet.entry.detection_method = cacheHist[u][2]
              /\ cacheRet.entry.url = u
         ELSE cacheRet.entry = NoEntry
  /\ cacheFile.exists =>
       \A k \in DOMAIN cacheFile.data : persistTime - cacheFile.data[k].timestamp <= TTL

\* an entry expired: get returned nothing for a URL that was set, and a later set of
\* the other URL persisted a document without it
ExpiredEntryPurged ==
  /\ JustGot("http://radio/a") /\ cacheRet.entry = NoEntry
  /\ cacheHist["http://radio/a"] # NoHist
  /\ cacheHist["https://radio/b"] # NoHist
  /\ now - cacheHist["https://radio/b"][3] <= TTL
  /\ cacheFile.exists
  /\ CacheKey("http://radio/a") \notin DOMAIN cacheFile.data
  /\ CacheKey("https://radio/b") \in DOMAIN cacheFile.data


(***************************************************************************)
(* The registry shared by two worker processes, each with its own          *)
(* DeviceManager on the same state file.  A write method is modelled in    *)
(* the steps of _save_state: the temporary file is opened (created or      *)
(* truncated), the document is written through that handle, the temporary  *)
(* name is renamed over state.json.  The lock of a DeviceManager keeps the  *)
(* methods of one worker apart; nothing keeps two workers apart.           *)
(***************************************************************************)
\* the devices select_device is called with
RegDevices == { WithCaps(d, Mp3Caps) : d \in {x \in NetDevices : x.ip = "10.0.0.1"} }
\* the scan results update_device_cache is called with, and the ip looked up
IoScans == { l \in ScanResults : \A i \in 1..Len(l) : l[i].ip = "10.0.0.2" }
IoIps == {"10.0.0.2"}

\* a write method up to `with open(temp_file, 'w') as f`: the snapshot is changed,
\* the temporary file exists and is empty
SaveOpen(w, m, op) ==
  /\ io[w].pc = "idle"
  /\ dm' = [dm EXCEPT ![w] = m]
  /\ tmpFile' = [exists |-> TRUE, data |-> <<>>]
  /\ io' = [io EXCEPT ![w] = [pc |-> "opened", at |-> "tmp", op |-> op]]
  /\ UNCHANGED <<streamVars, cacheVars, now, call, stateFile, regRet, sel, lastWrite>>

\* select_device(d), clear_device(), update_device_cache(l) up to the open
IoSelect(w, d) == SaveOpen(w, AfterSelect(dm[w], d), "select")
IoClear(w) == SaveOpen(w, AfterClear(dm[w]), "clear")
IoUpdateCache(w, l) == SaveOpen(w, AfterUpdateCache(dm[w], l, now), "update")

\* the write a method of worker w has made when it returns with snapshot m
WriteOf(op, w, m) ==
  [op |-> op, w |-> w,
   dev  |-> IF op = "select" THEN m.current_device ELSE NoDev,
   list |-> IF op = "update" THEN m.cached_devices ELSE <<>>,
   time |-> IF op = "update" THEN m.last_scan_time ELSE NoTime]

\* writing text at offset 0 of a file that holds old: what lies beyond stays
Overlay(old, text) == text \o SubSeq(old, Len(text) + 1, Len(old))

\* json.dump(data, f) and the close of the file: the text goes to the file the
\* handle was opened on, wherever that file is now
IoDump(w) ==
  /\ io[w].pc = "opened"
  /\ io' = [io EXCEPT ![w].pc = "written"]
  /\ tmpFile' = IF io[w].at = "tmp"
                THEN [tmpFile EXCEPT !.data = Overlay(@, Encode(dm[w]))] ELSE tmpFile
  /\ stateFile' = IF io[w].at = "state"
                  THEN [stateFile EXCEPT !.data = Overlay(@, Encode(dm[w]))] ELSE stateFile
  /\ UNCHANGED <<streamVars, cacheVars, now, call, dm, regRet, sel, lastWrite>>

\* os.replace(temp_file, state_file), and the method returns; when the temporary
\* name is gone the error is logged and swallowed
IoReplace(w) ==
  /\ io[w].pc = "written"
  /\ IF tmpFile.exists
     THEN /\ stateFile' = tmpFile
          /\ tmpFile' = NoFile
          /\ io' = [v \in Workers |->
                      IF v = w THEN NoIo
                      ELSE [io[v] EXCEPT !.at = CASE @ = "tmp"   -> "state"
                                                  [] @ = "state" -> "gone"
                                                  [] OTHER       -> @]]
     ELSE /\ UNCHANGED <<stateFile, tmpFile>>
          /\ io' = [io EXCEPT ![w] = NoIo]
  /\ lastWrite' = WriteOf(io[w].op, w, dm[w])
  /\ regRet' = Stale(regRet)
  /\ UNCHANGED <<streamVars, cacheVars, now, call, dm, sel>>

NextRegIO ==
  \E w \in Workers :
    \/ \E d \in RegDevices : IoSelect(w, d)
    \/ IoClear(w)
    \/ \E l \in IoScans : IoUpdateCache(w, l)
    \/ IoDump(w)
    \/ IoReplace(w)
    \/ \E op \in {"current", "cached"}, ip \in IoIps : RegRead(w, op, ip)

SpecRegIO == InitQuiet /\ [][NextRegIO]_vars


\* C9: registry writes are atomic: whatever the interleaving of writers and readers,
\* the state file a reader opens holds one complete document, never a partially
\* written one.
RegistryWritesAtomic == stateFile.exists => WellFormed(stateFile.data)

\* C8: registry read-after-write across workers: a read that runs after the last
\* write method has returned, with no write in progress, returns what that write
\* persisted - select(d) then get_current_device() returns d on all fields,
\* clear_device() then get_current_device() returns none, update_device_cache(l)
\* then get_cached_devices() returns l, find_device_in_cache(ip) its first device
\* with that ip and get_cache_age() the time since that scan - whichever worker
\* wrote and whichever worker reads.
ReadAfterWriteAcrossWorkers ==
  regRet.fresh /\ regRet.quiet =>
    /\ lastWrite.op = "select" /\ regRet.op = "current" => regRet.dev = lastWrite.dev
    /\ lastWrite.op = "clear" /\ regRet.op = "current" => regRet.dev = NoDev
    /\ lastWrite.op = "update" /\ regRet.op = "cached" => regRet.list = lastWrite.list
    /\ lastWrite.op = "update" /\ regRet.op = "find" =>
         regRet.dev = FirstWithIp(lastWrite.list, regRet.ip)
    /\ lastWrite.op = "update" /\ regRet.op = "age" => regRet.age = now - lastWrite.time

(***************************************************************************)
(* The registry with every DeviceManager method as one step: worker 1      *)
(* handles POST /devices/select requests while worker 2 calls the registry *)
(* methods, and both read.                                                 *)
(***************************************************************************)
\* the ip values of the select requests, and what their scans find
RegIps == {"10.0.0.1", "", "999.999.999.999"}
RegScans == { l \in ScanResults : \A i \in 1..Len(l) : l[i].ip = "10.0.0.1" }

NextReg ==
  \/ SelectStep(1, RegIps, RegScans, {Mp3Caps})
  \/ \E d \in RegDevices : RegSelect(2, d)
  \/ RegClear(2)
  \/ \E l \in IoScans : RegUpdateCache(2, l)
  \/ \E w \in Workers, op \in ReadOps, ip \in IoIps : RegRead(w, op, ip)

SpecReg == InitQuiet /\ [][NextReg]_vars

\* DeviceManager.has_device: the snapshot in memory is tested, nothing is read
HasDevice(m) == m.current_device # NoDev

\* has_device() called in worker w; call holds the call and its result
RegHasDevice(w) ==
  /\ io[w].pc = "idle"
  /\ call' = [fn |-> "has_device", in |-> w, done |-> TRUE, out |-> HasDevice(dm[w])]
  /\ UNCHANGED <<streamVars, cacheVars, now, regVars>>

\* both workers select and clear the device and ask for it
NextHasDevice ==
  \/ \E w \in Workers, d \in NetDevices : RegSelect(w, d)
  \/ \E w \in Workers : RegClear(w)
  \/ \E w \in Workers : RegRead(w, "current", "")
  \/ \E w \in Workers : RegHasDevice(w)

\* the workers have started; no has_device() has returned yet
InitHasDevice ==
  /\ InitCommon /\ alive = {} /\ pidFile = None
  /\ call = [fn |-> "has_device", in |-> 1, done |-> FALSE, out |-> FALSE]

SpecHasDevice == InitHasDevice /\ [][NextHasDevice]_vars

\* the current_device a reader of the state file finds
PersistedCurrent ==
  IF stateFile.exists /\ WellFormed(stateFile.data)
  THEN Decode(stateFile.data).current_device ELSE NoDev

\* C10: a POST /devices/select leaves the persisted current_device as it was in
\* every step but its last, successful one: a request that fails (ip rejected,
\* device not found) never changes it, and a request that succeeds replaces it only
\* after the device was resolved and capability detection has run.
FailedSelectKeepsSelection ==
  [][\A w \in Workers :
       sel'[w] # sel[w] /\ ~(sel'[w].pc = "done" /\ sel'[w].code = 200) =>
         PersistedCurrent' = PersistedCurrent]_vars


(***************************************************************************)
(* AudioStreamer.stop and AudioStreamer.is_running, on the worlds the      *)
(* sequential service reaches.                                             *)
(***************************************************************************)
\* C11: AudioStreamer.stop() on a running streamer closes the listener first (the
\* subprocess and the PID file are still as they were), then terminates the
\* subprocess (the PID file is still there), then removes the PID file, and leaves
\* running = false with no process and no server handle; on a streamer that is not
\* running it changes nothing, so a second stop() changes nothing.
StopOrderAndIdempotence ==
  \A s \in Objects : objs[s].kind = "audio" =>
    LET st    == AudioStopSteps(World, s)
        after == AudioStop(World, s)
    IN  /\ objs[s].running =>
              /\ ~st[1].objs[s].server /\ st[1].portOwner # s
              /\ st[1].alive = alive /\ st[1].objs[s].proc = objs[s].proc
              /\ st[1].pidFile = pidFile
              /\ st[2].objs[s].proc = None /\ objs[s].proc \notin st[2].alive
              /\ st[2].pidFile = pidFile
              /\ st[3].pidFile = None
              /\ ~after.objs[s].running /\ ~after.objs[s].server
              /\ after.objs[s].proc = None /\ objs[s].proc \notin after.alive
              /\ after.pidFile = None
        /\ ~objs[s].running => after = World
        /\ AudioStop(after, s) = after

\* a /stop request is about to stop a running transcoding session
StopOfRunningSession ==
  /\ req[1].pc = "s_streamer" /\ streamer # None
  /\ objs[streamer].kind = "audio" /\ objs[streamer].running /\ objs[streamer].server
  /\ objs[streamer].proc \in alive /\ pidFile = objs[streamer].proc

\* C12: when the transcoder has exited while running is still true, the next
\* is_running() returns false, closes the listener, clears running and invokes the
\* crash callback; every later is_running() returns false and changes nothing, so
\* the callback is invoked exactly once per crash.
CrashDetectedOnce ==
  \A s \in Objects : objs[s].kind = "audio" =>
    LET r == AudioIsRunning(World, s)
    IN  /\ r.crash_callback <=>
              objs[s].running /\ ~(objs[s].proc # None /\ objs[s].proc \in alive)
        /\ r.crash_callback =>
              /\ ~r.ret
              /\ ~r.w.objs[s].running /\ ~r.w.objs[s].server /\ r.w.portOwner # s
              /\ AudioIsRunning(r.w, s) = [ret |-> FALSE, w |-> r.w, crash_callback |-> FALSE]

\* /health has found the crashed transcoder of the current session
CrashFoundByHealth ==
  /\ req[1].op = "health" /\ req[1].pc = "done" /\ ~req[1].streaming
  /\ req[1].crashed
  /\ streamer # None /\ objs[streamer].kind = "audio"
  /\ ~objs[streamer].running /\ ~objs[streamer].server

\* C15: POST /stop tears down the active streaming session and clears the session
\* reference: in the step in which /stop returns, the global streamer becomes None
\* and the session it designated keeps no listener and no live transcoder.
StopTearsDownSession ==
  [][\A t \in Threads :
       req[t].pc = "s_streamer" /\ req'[t].pc = "done" =>
         /\ streamer' = None
         /\ streamer # None =>
              /\ ~objs'[streamer].server /\ portOwner' # streamer
              /\ objs[streamer].proc \notin alive']_vars

(***************************************************************************)
(* The functions of the program that are called on their own: the input    *)
(* of a call is drawn when the program starts, the step applies the        *)
(* function to it.                                                         *)
(***************************************************************************)
\* texts handed to validate_ip_address: three to MaxSegments segments joined by
\* dots, with or without white space in front and behind
IpTexts ==
  LET octs == {<<"0">>, <<"2","5","5">>, <<"2","5","6">>, <<"1","a">>}
      RECURSIVE JoinDots(_)
      JoinDots(segs) ==
        IF Len(segs) = 1 THEN segs[1] ELSE segs[1] \o <<".">> \o JoinDots(Tail(segs))
  IN  { pre \o JoinDots(segs) \o post :
          pre \in {<<>>, <<" ">>}, post \in {<<>>, <<" ">>, <<"\n">>},
          segs \in UNION {[1..n -> octs] : n \in 3..MaxSegments} }

\* inputs of discover
DiscoverInputs ==
  LET avt == AvTransportService(TRUE, <<"/","u","p","n","p","/","c","o","n","t","r","o","l","/","a","v","t">>)
      dflt == AvTransportService(TRUE, <<"A","V","T","r","a","n","s","p","o","r","t","/","c","t","r","l">>)
      cm == [hasType |-> TRUE, type |-> <<"s","e","r","v","i","c","e",":","C","o","n","n","e","c","t","i","o","n","M","a","n","a","g","e","r",":","1">>,
             hasCtrl |-> TRUE, ctrl |-> <<"/","u","p","n","p","/","c","o","n","t","r","o","l","/","c","m">>]
      empty == [hasType |-> TRUE, type |-> <<>>, hasCtrl |-> TRUE, ctrl |-> <<"/","u","p","n","p","/","c","o","n","t","r","o","l","/","a","v","t">>]
      docs == { [kind |-> "raise", status |-> 0, root |-> "malformed", services |-> <<>>],
                Description("device", <<avt>>), Description("device", <<dflt>>),
                Description("device", <<cm>>), Description("device", <<empty, avt>>) }
  IN  { [setup_fails |-> f, responses |-> r, docs |-> d, reversed |-> v, cut |-> c,
         callback |-> cb] :
          f \in BOOLEAN,
          r \in UNION {[1..n -> Locations \cup {""}] : n \in 0..MaxResponses},
          d \in [Locations -> docs], v \in BOOLEAN, c \in 0..2,
          cb \in {"none", "ok", "raises"} }

(***************************************************************************)
(* The relay (StreamHandler.do_GET) beside the requests of thread 1.       *)
(* call holds the connection being served: its number, its path, how the   *)
(* connection before it ended and the subprocess that one was served from; *)
(* and the response: status, chunks written, the subprocess they were read *)
(* from, how the response ended.                                           *)
(***************************************************************************)
RelayPaths == {"/stream.mp3", "/favicon.ico"}
\* what self.wfile.write(chunk) does
WriteOutcomes == {"written", "BrokenPipeError", "ConnectionResetError", "OSError"}
Disconnects == {"BrokenPipeError", "ConnectionResetError"}

\* a relay that stops the transcoder when the client goes away
WriteChunkStoppingTranscoder(w, outcome) ==
  IF outcome \in Disconnects /\ w.handlerProc # None
  THEN [w EXCEPT !.alive = @ \ {w.handlerProc}]
  ELSE w

\* do_GET, lines 66-71: the world after self.wfile.write(chunk) and the except
\* clauses around the loop
WriteChunk(w, outcome) == w

NoResponse == [status |-> 0, chunks |-> 0, from |-> None, ended |-> ""]

\* a client connects to the listener and do_GET answers the request line
RelayConnect(path) ==
  /\ portOwner # None
  /\ IF call.fn = "none" THEN TRUE
     ELSE call.fn = "do_GET" /\ call.done /\ call.in.conn < MaxConnections
  /\ LET in == [conn |-> IF call.fn = "none" THEN 1 ELSE call.in.conn + 1,
                path |-> path,
                prevEnded |-> IF call.fn = "none" THEN "" ELSE call.out.ended,
                prevFrom |-> IF call.fn = "none" THEN None ELSE call.out.from]
     IN  call' = IF path = "/stream.mp3"
                 THEN [fn |-> "do_GET", in |-> in, done |-> FALSE,
                       out |-> [NoResponse EXCEPT !.status = 200]]
                 ELSE [fn |-> "do_GET", in |-> in, done |-> TRUE,
                       out |-> [NoResponse EXCEPT !.status = 404, !.ended = "returned"]]
  /\ UNCHANGED <<streamVars, cacheVars, now, regVars>>

\* do_GET, lines 64-71: one turn of the loop
RelayChunk(outcome) ==
  /\ call.fn = "do_GET" /\ ~call.done
  /\ IF handlerProc = None \/ handlerProc \notin alive
     THEN /\ call' = [call EXCEPT !.done = TRUE, !.out.ended = "returned"]
          /\ SetWorld(World)
     ELSE /\ call.out.chunks < MaxChunks \/ outcome # "written"
          /\ call' = IF outcome = "written"
                     THEN [call EXCEPT !.out.chunks = @ + 1, !.out.from = handlerProc]
                     ELSE [call EXCEPT !.done = TRUE, !.out.ended = outcome]
          /\ SetWorld(WriteChunk(World, outcome))
  /\ UNCHANGED <<nobj, streamer, dlna_client, req, cacheVars, now, regVars>>

\* the requests of thread 1 meet no failure but a crash of the transcoder
NextRelay ==
  \/ PlayRecv(1, "http://radio/a")
  \/ PlayStopOld(1)
  \/ \E head \in HeadResults : PlayDetect(1, "STOPPED", head, "")
  \/ PlayCreate(1)
  \/ PlayStart(1)
  \/ PlaySpawn(1, TRUE)
  \/ PlayBind(1, FALSE)
  \/ PlayWait(1, TRUE)
  \/ PlayPush(1, TRUE, TRUE)
  \/ StopRecv(1)
  \/ StopStreamer(1)
  \/ Health(1)
  \/ \E p \in 1..MaxStreamers : Crash(p)
  \/ \E path \in RelayPaths : RelayConnect(path)
  \/ \E outcome \in WriteOutcomes : RelayChunk(outcome)

SpecRelay == InitConc /\ [][NextRelay]_vars

(***************************************************************************)
(* GET /devices with force_scan=true (main.py) and the socket timeout of   *)
(* the discovery it starts.                                                *)
(***************************************************************************)
\* values of the timeout query parameter
TimeoutParams == {0 - 1, 0, 1, 5, 15, 16}

\* devices, line 564: timeout = min(timeout, 15)
scan_timeout(timeout) == IF timeout < 15 THEN timeout ELSE 15

\* discover(timeout) on a network where the renderers `found` answer:
\* sock.settimeout raises ValueError for a negative value, and the exception
\* handler around the whole scan returns the empty list; with 0 the socket does
\* not block, recvfrom raises BlockingIOError, which is not socket.timeout, and
\* the receive loop goes on for ever
discover_within(timeout, found) ==
  IF timeout < 0 THEN [returns |-> TRUE, devices |-> <<>>]
  ELSE IF timeout = 0 THEN [returns |-> FALSE, devices |-> <<>>]
  ELSE [returns |-> TRUE, devices |-> found]

\* devices, lines 562-573, on the cached list it finds: the timeout handed to
\* discover, whether the request is answered, the list answered and the cache after
devices_force_scan(timeout, cached, found) ==
  LET used == scan_timeout(timeout)
      scan == discover_within(used, found)
  IN  [timeout  |-> used,
       returns  |-> scan.returns,
       devices  |-> scan.devices,
       cached_devices |-> IF scan.returns THEN scan.devices ELSE cached]

(***************************************************************************)
(* AudioStreamer.is_running called from request threads at the same time   *)
(* (GET /health, GET /status).  The method takes no lock, so each read and  *)
(* each write of an attribute of the streamer is a step of its own.  call  *)
(* counts, per streamer, what the crash cleanups did.                      *)
(***************************************************************************)
RunningOps == {"health", "status"}

NoCleanup == [shutdowns |-> 0, closes |-> 0, callbacks |-> 0]

\* what the crash cleanups have done so far, per streamer
Cleanups == IF call.fn = "none" THEN [s \in Objects |-> NoCleanup] ELSE call.out

Counted(s, field) ==
  [fn |-> "is_running", in |-> s, done |-> FALSE,
   out |-> [Cleanups EXCEPT ![s][field] = @ + 1]]

\* health / status: streamer is not None and streamer.is_running()
RunningBegin(t, op) ==
  /\ Free(t)
  /\ req' = [req EXCEPT ![t] =
               IF streamer = None \/ objs[streamer].kind # "audio"
               THEN Respond([Idle EXCEPT !.op = op,
                                          !.streaming = (streamer # None /\ objs[streamer].running)],
                            200, "")
               ELSE [Idle EXCEPT !.op = op, !.pc = "r_poll", !.self = streamer]]
  /\ UNCHANGED <<objs, nobj, streamer, dlna_client, alive, pidFile, portOwner, handlerProc>>
  /\ UNCHANGED <<cacheVars, now, call, regVars>>

\* is_running moves on to pc, or returns ret when pc is "done"
RunningGoes(t, pc, ret, crashed) ==
  req' = [req EXCEPT ![t] =
            IF pc = "done"
            THEN Respond([@ EXCEPT !.streaming = ret, !.crashed = crashed], 200, "")
            ELSE [@ EXCEPT !.pc = pc]]

\* line 283: if self.ffmpeg_process and self.ffmpeg_process.poll() is None
RunningPoll(t) ==
  /\ req[t].pc = "r_poll"
  /\ LET s == req[t].self
     IN  IF objs[s].proc # None /\ objs[s].proc \in alive
         THEN RunningGoes(t, "done", TRUE, FALSE)
         ELSE RunningGoes(t, "r_flag", FALSE, FALSE)
  /\ UNCHANGED <<objs, nobj, streamer, dlna_client, alive, pidFile, portOwner, handlerProc>>
  /\ UNCHANGED <<cacheVars, now, call, regVars>>

\* line 287: if self.running
RunningFlag(t) ==
  /\ req[t].pc = "r_flag"
  /\ IF objs[req[t].self].running
     THEN RunningGoes(t, "r_clear", FALSE, FALSE)
     ELSE RunningGoes(t, "done", FALSE, FALSE)
  /\ UNCHANGED <<objs, nobj, streamer, dlna_client, alive, pidFile, portOwner, handlerProc>>
  /\ UNCHANGED <<cacheVars, now, call, regVars>>

\* lines 288-298: the log lines, self.running = False, if self.http_server
RunningClear(t) ==
  /\ req[t].pc = "r_clear"
  /\ LET s == req[t].self
     IN  /\ objs' = [objs EXCEPT ![s].running = FALSE]
         /\ IF objs[s].server
            THEN RunningGoes(t, "r_shutdown", FALSE, FALSE)
            ELSE RunningGoes(t, "r_callback", FALSE, FALSE)
  /\ UNCHANGED <<nobj, streamer, dlna_client, alive, pidFile, portOwner, handlerProc>>
  /\ UNCHANGED <<cacheVars, now, call, regVars>>

\* line 300: self.http_server.shutdown(); the attribute is read again, and when
\* it is None by now the AttributeError is caught and the finally clause runs
RunningShutdown(t) ==
  /\ req[t].pc = "r_shutdown"
  /\ LET s == req[t].self
     IN  IF objs[s].server
         THEN /\ call' = Counted(s, "shutdowns")
              /\ RunningGoes(t, "r_close", FALSE, FALSE)
         ELSE /\ UNCHANGED call
              /\ RunningGoes(t, "r_none", FALSE, FALSE)
  /\ UNCHANGED <<objs, nobj, streamer, dlna_client, alive, pidFile, portOwner, handlerProc>>
  /\ UNCHANGED <<cacheVars, now, regVars>>

\* line 301: self.http_server.server_close(), the listening socket is closed
RunningClose(t) ==
  /\ req[t].pc = "r_close"
  /\ LET s == req[t].self
     IN  IF objs[s].server
         THEN /\ call' = Counted(s, "closes")
              /\ portOwner' = IF portOwner = s THEN None ELSE portOwner
         ELSE UNCHANGED <<call, portOwner>>
  /\ RunningGoes(t, "r_none", FALSE, FALSE)
  /\ UNCHANGED <<objs, nobj, streamer, dlna_client, alive, pidFile, handlerProc>>
  /\ UNCHANGED <<cacheVars, now, regVars>>

\* line 305: finally: self.http_server = None
RunningNone(t) ==
  /\ req[t].pc = "r_none"
  /\ objs' = [objs EXCEPT ![req[t].self].server = FALSE]
  /\ RunningGoes(t, "r_callback", FALSE, FALSE)
  /\ UNCHANGED <<nobj, streamer, dlna_client, alive, pidFile, portOwner, handlerProc>>
  /\ UNCHANGED <<cacheVars, now, call, regVars>>

\* lines 308-314: the call reaches the invocation of the crash callback and
\* returns False
RunningCallback(t) ==
  /\ req[t].pc = "r_callback"
  /\ call' = Counted(req[t].self, "callbacks")
  /\ RunningGoes(t, "done", FALSE, TRUE)
  /\ UNCHANGED <<objs, nobj, streamer, dlna_client, alive, pidFile, portOwner, handlerProc>>
  /\ UNCHANGED <<cacheVars, now, regVars>>

\* the first /play of thread 1, the death of the transcoder, and /health and
\* /status on both threads
NextIsRunning ==
  \/ streamer = None /\ PlayRecv(1, "http://radio/a")
  \/ PlayStopOld(1)
  \/ \E head \in HeadResults : PlayDetect(1, "STOPPED", head, "")
  \/ PlayCreate(1)
  \/ PlayStart(1)
  \/ PlaySpawn(1, TRUE)
  \/ PlayBind(1, FALSE)
  \/ PlayWait(1, TRUE)
  \/ PlayPush(1, TRUE, TRUE)
  \/ \E p \in 1..MaxStreamers : Crash(p)
  \/ \E t \in Threads, op \in RunningOps : RunningBegin(t, op)
  \/ \E t \in Threads : RunningPoll(t)
  \/ \E t \in Threads : RunningFlag(t)
  \/ \E t \in Threads : RunningClear(t)
  \/ \E t \in Threads : RunningShutdown(t)
  \/ \E t \in Threads : RunningClose(t)
  \/ \E t \in Threads : RunningNone(t)
  \/ \E t \in Threads : RunningCallback(t)

SpecIsRunning == InitConc /\ [][NextIsRunning]_vars

(***************************************************************************)
(* The API key decorator (security.py) and its use on /play, /stop and     *)
(* /devices/select (main.py).                                              *)
(***************************************************************************)
\* the argument main.py gives to require_api_key at the three routes:
\* `lambda: config`, a function object (and not the Config it would return)
RouteConfigArgument == [kind |-> "function", api_auth_enabled |-> FALSE, api_key |-> ""]

\* decorated_function of require_api_key(config) for a request whose X-API-Key
\* header is provided_key ("" : no header): "f" when the handler body is called,
\* the status of the rejection otherwise; the attribute access
\* config.api_auth_enabled raises AttributeError on a function object
decorated_function(config, provided_key) ==
  IF config.kind = "function" THEN "AttributeError"
  ELSE IF ~config.api_auth_enabled THEN "f"
  ELSE IF provided_key = "" THEN "401"
  ELSE IF provided_key # config.api_key THEN "403"
  ELSE "f"

\* a request to a key-protected route: the status Flask answers with when the
\* decorator rejects or raises (the 500 error handler), and whether the handler
\* body ran
protected_route(config, provided_key) ==
  LET r == decorated_function(config, provided_key)
  IN  [body_ran |-> r = "f",
       status |-> CASE r = "401" -> 401 [] r = "403" -> 403
                    [] r = "AttributeError" -> 500 [] OTHER -> 0]

(***************************************************************************)
(* Format detection over time: _detect_stream_format as /play and          *)
(* _precache_default_stream call it, with the clock advancing in between.  *)
(* call holds the last call: its arguments, the cache it found, its result.*)
(***************************************************************************)
DetectCall(u, head, probe) ==
  /\ LET d == DetectStreamFormat(cache[1], cacheFile, u, now, head, probe)
     IN  /\ cache' = [cache EXCEPT ![1] = d.c]
         /\ cacheFile' = d.file
         /\ persistTime' = IF d.wrote THEN now ELSE persistTime
         /\ cacheHist' = IF d.wrote THEN [cacheHist EXCEPT ![u] = <<d.fmt, d.method, now>>]
                         ELSE cacheHist
         /\ call' = [fn |-> "_detect_stream_format",
                     in |-> [url |-> u, head |-> head, probe |-> probe,
                             cache |-> cache[1], file |-> cacheFile, time |-> now],
                     done |-> TRUE, out |-> d]
  /\ cacheRet' = [cacheRet EXCEPT !.fresh = FALSE]
  /\ UNCHANGED <<streamVars, cacheOp, now, regVars>>

NextDetect ==
  \/ \E u \in CacheUrls, head \in HeadResults, probe \in ProbeResults : DetectCall(u, head, probe)
  \/ Tick

SpecDetect == InitQuiet /\ [][NextDetect]_vars

(***************************************************************************)
(* The background device scan started by initialize() (main.py), in worker *)
(* 1.  call.in is what the network answers, call.out the devices discover  *)
(* has appended so far, call.done: the function has returned.              *)
(***************************************************************************)
BackgroundScan(l) == [fn |-> "_background_device_scan", in |-> l, done |-> FALSE, out |-> <<>>]

\* discover appends the next device and calls on_device_found: the device is
\* added to the cached list, by update_device_cache, unless its id is there
ScanFound ==
  /\ call.fn = "_background_device_scan" /\ ~call.done
  /\ Len(call.out) < Len(call.in)
  /\ LET device_info == call.in[Len(call.out) + 1]
         cached == GetCachedDevices(dm[1], stateFile)
         device_exists == \E i \in 1..Len(cached) : cached[i].id = device_info.id
         m0 == LoadState(dm[1], stateFile)
         m1 == AfterUpdateCache(m0, Append(cached, device_info), now)
     IN  /\ dm' = [dm EXCEPT ![1] = IF device_exists THEN m0 ELSE m1]
         /\ stateFile' = IF device_exists THEN stateFile ELSE SavedFile(m1)
         /\ lastWrite' = IF device_exists THEN lastWrite
                         ELSE [NoWrite EXCEPT !.op = "update", !.w = 1,
                                              !.list = Append(cached, device_info), !.time = now]
         /\ call' = [call EXCEPT !.out = Append(@, device_info)]
  /\ regRet' = Stale(regRet)
  /\ UNCHANGED <<streamVars, cacheVars, now, tmpFile, io, sel>>

\* discover returns the devices appended so far (all of them, or those fetched
\* before its timeout); lines 448-463: the final update_device_cache if the list
\* is not empty, then _try_auto_select_default_device, which returns at once
\* when no default device is configured
ScanReturn ==
  /\ call.fn = "_background_device_scan" /\ ~call.done
  /\ LET devices == call.out
         m1 == AfterUpdateCache(dm[1], devices, now)
     IN  IF devices # <<>>
         THEN /\ dm' = [dm EXCEPT ![1] = m1]
              /\ stateFile' = SavedFile(m1)
              /\ lastWrite' = [NoWrite EXCEPT !.op = "update", !.w = 1, !.list = devices,
                                              !.time = now]
         ELSE UNCHANGED <<dm, stateFile, lastWrite>>
  /\ call' = [call EXCEPT !.done = TRUE]
  /\ regRet' = Stale(regRet)
  /\ UNCHANGED <<streamVars, cacheVars, now, tmpFile, io, sel>>

InitScan ==
  /\ InitCommon /\ alive = {} /\ pidFile = None
  /\ \E l \in ScanResults : call = BackgroundScan(l)

NextScan ==
  \/ ScanFound
  \/ ScanReturn
  \/ \E op \in ReadOps, ip \in Ips : RegRead(1, op, ip)
  \/ Tick

SpecScan == InitScan /\ [][NextScan]_vars

\* titles and URLs: the texts of up to MaxText characters over a letter and the
\* five characters that are escaped, and three longer ones
DidlTexts ==
  UNION { [1..n -> {"a", "&", "<", ">", "\"", "'"}] : n \in 0..MaxText } \cup
  { <<"h","t","t","p",":","/","/","r","a","d","i","o","/","a","?","x","=","1","&","y","=","2">>,
    <<"&","a","m","p",";">>,
    <<"T","o","m"," ","&"," ","\"","J","e","r","r","y","'","s","\""," ","<","l","i","v","e",">">> }

\* the capabilities a client can hold: none, those of a failed probe, and those
\* detected from each Sink of the model
ClientCaps ==
  {NoCaps} \cup
  { detect_capabilities(o) : o \in HttpOutcomes(Sinks \cup {""}) }

\* the calls: one function and one input each
LibCalls(fn) ==
  CASE fn = "validate_ip_address" ->
         { PendingCall("validate_ip_address", t) : t \in IpTexts }
    [] fn = "validate_stream_url" ->
         { PendingCall("validate_stream_url", u) : u \in Urls \cup MoreUrls }
    [] fn = "_send_soap_request" ->
         { PendingCall("_send_soap_request", o) : o \in HttpOutcomes({"", "<ok/>"}) }
    [] fn = "soap_command" ->
         { PendingCall("soap_command", [cmd |-> c, http |-> o]) :
             c \in {"SetAVTransportURI", "Play", "Pause", "Stop"}, o \in HttpOutcomes({"", "<ok/>"}) }
    [] fn = "stop_if_playing" ->
         { PendingCall("stop_if_playing", [state |-> st, http |-> o]) :
             st \in TransportStates \cup MoreTransportStates, o \in HttpOutcomes({"<ok/>"}) }
    [] fn = "detect_capabilities" ->
         { PendingCall("detect_capabilities", o) : o \in HttpOutcomes(Sinks \cup {""}) }
    [] fn = "_fetch_device_info" ->
         { PendingCall("_fetch_device_info", [location |-> l, doc |-> d]) :
             l \in Locations, d \in Descriptions }
    [] fn = "discover" ->
         { PendingCall("discover", in) : in \in DiscoverInputs }
    [] fn = "get_transport_info" ->
         { PendingCall("get_transport_info", [retries |-> n, answers |-> a]) :
             n \in 0..MaxRetries, a \in [1..(MaxRetries + 2) -> TransportAnswers] }
    [] fn = "can_play_format" ->
         { PendingCall("can_play_format", [caps |-> c, http |-> o, mime |-> t]) :
             c \in {NoCaps, UnknownCaps, Mp3Caps, AacCaps,
                    [has |-> TRUE, fams |-> {"flac", "wav", "ogg"},
                     raw |-> "http-get:*:audio/x-wav:*,http-get:*:application/ogg:*"]},
             o \in HttpOutcomes(Sinks \cup {""}), t \in DOMAIN MimeChars }
    [] fn = "_build_didl_metadata" ->
         { PendingCall("_build_didl_metadata", [caps |-> c, url |-> u, title |-> t, mime |-> x]) :
             c \in {NoCaps}, u \in {<<"h","t","t","p",":","/","/","r","a","d","i","o","/","a","?","x","=","1","&","y","=","2">>, <<"<","'",">">>},
             t \in DidlTexts, x \in {"audio/mpeg"} } \cup
         { PendingCall("_build_didl_metadata", [caps |-> c, url |-> u, title |-> t, mime |-> x]) :
             c \in ClientCaps, u \in {<<"h","t","t","p",":","/","/","r","a","d","i","o","/","a","?","x","=","1","&","y","=","2">>}, t \in {<<"A","u","d","i","o"," ","S","t","r","e","a","m">>},
             x \in DOMAIN MimeChars }
    [] fn = "require_api_key" ->
         { PendingCall("require_api_key", [api_auth_enabled |-> e, api_key |-> k, header |-> h]) :
             e \in BOOLEAN, k \in {"", "k1"}, h \in {"", "k1", "k2"} }
    [] fn = "play_url" ->
         { PendingCall("play_url", [set |-> s, play |-> p]) :
             s \in HttpOutcomes({"", "<ok/>"}), p \in HttpOutcomes({"", "<ok/>"}) }
    [] fn = "devices" ->
         { PendingCall("devices", [timeout |-> t, cached |-> c, found |-> f]) :
             t \in TimeoutParams, c \in ScanResults, f \in ScanResults }

LibFunctions ==
  {"validate_ip_address", "validate_stream_url", "_send_soap_request", "soap_command",
   "stop_if_playing", "detect_capabilities", "_fetch_device_info", "discover",
   "get_transport_info",
   "can_play_format",
   "_build_didl_metadata",
   "require_api_key",
   "play_url",
   "devices"}

InitLib ==
  /\ InitCommon /\ alive = {} /\ pidFile = None
  /\ \E fn \in LibFunctions : call \in LibCalls(fn)

NextLib ==
  \/ Apply("validate_ip_address", ValidateIpChars(call.in))
  \/ Apply("validate_stream_url", validate_stream_url(call.in))
  \/ Apply("_send_soap_request", send_soap_request(call.in))
  \/ Apply("soap_command", soap_command(call.in.cmd, call.in.http))
  \/ Apply("stop_if_playing", stop_if_playing(call.in.state, call.in.http))
  \/ Apply("detect_capabilities", detect_capabilities(call.in))
  \/ Apply("_fetch_device_info", fetch_device_info(call.in.location, call.in.doc))
  \/ Apply("discover", discover(call.in))
  \/ Apply("get_transport_info", get_transport_info(call.in.retries, call.in.answers))
  \/ Apply("can_play_format", can_play_format_detecting(call.in.caps, call.in.http, call.in.mime))
  \/ Apply("_build_didl_metadata", build_didl_metadata(call.in.caps, call.in.url, call.in.title, call.in.mime))
  \/ Apply("require_api_key", protected_route(RouteConfigArgument, call.in.header))
  \/ Apply("play_url", play_url(call.in.set, call.in.play))
  \/ Apply("devices", devices_force_scan(call.in.timeout, call.in.cached, call.in.found))

SpecLib == InitLib /\ [][NextLib]_vars

Returned(fn) == call.fn = fn /\ call.done

\* four segments of one to three digits, each at most 255, and nothing else
IsDottedQuad(t) ==
  LET segs == Split(t, ".")
      IsOctet(seg) == (Len(seg) \in 1..3) /\
                      (\A j \in 1..Len(seg) : seg[j] \in {"0","1","2","3","4","5","6","7","8","9"})
  IN  /\ Len(segs) = 4
      /\ \A i \in 1..4 : IsOctet(segs[i]) /\ DecimalValue(segs[i]) <= 255

\* C18: validate_ip_address accepts every dotted quad whose four octets are in
\* 0..255 and rejects every other text: one with a character that is neither a
\* digit nor a dot, with an octet above 255, with another number of segments, or
\* with white space in front or behind, a trailing newline included.
IpValidationIsExact ==
  Returned("validate_ip_address") => (call.out <=> IsDottedQuad(call.in))

TrailingNewlineAccepted ==
  /\ Returned("validate_ip_address")
  /\ call.in[Len(call.in)] = "\n"
  /\ call.out

\* a host name or address literal that designates the machine itself or the
\* link-local metadata range: localhost, 127.*, the IPv6 loopback, 169.254.*
IsLoopbackOrMetadata(host) ==
  \/ host \in { <<"l","o","c","a","l","h","o","s","t">>,
               <<":",":","1">>,
               <<"0",":","0",":","0",":","0",":","0",":","0",":","0",":","1">> }
  \/ StartsWith(host, <<"1","2","7",".">>)
  \/ StartsWith(host, <<"1","6","9",".","2","5","4",".">>)

\* C19: validate_stream_url accepts only http and https URLs whose host is not
\* empty and is not a loopback or link-local-metadata literal: a URL with another
\* scheme, without scheme or host, or with a blocked host (localhost, a loopback
\* address literal, 169.254.*, an IPv6 loopback form) is rejected.
AcceptedUrlIsRemoteHttp ==
  Returned("validate_stream_url") /\ call.out =>
    /\ UrlScheme(call.in) \in {"http", "https"}
    /\ UrlHost(call.in) # <<>>
    /\ ~IsLoopbackOrMetadata(UrlHost(call.in))

LoopbackUrlAccepted ==
  /\ Returned("validate_stream_url")
  /\ IsLoopbackOrMetadata(UrlHost(call.in))
  /\ call.out

Answered200(o) == o.kind = "response" /\ o.status = 200

SoapFailureIsNone ==
  /\ Returned("_send_soap_request") =>
        /\ ~call.out.raises
        /\ call.out.none <=> ~Answered200(call.in)
        /\ ~call.out.none => call.out.text = call.in.text
  /\ Returned("soap_command") => (call.out <=> Answered200(call.in.http))

SoapCommandFailedOnStatus ==
  /\ Returned("soap_command")
  /\ call.in.http.kind = "response"
  /\ call.in.http.status # 200
  /\ ~call.out

\* the flags the program sets for each Sink value of the model
ExpectedFlags ==
  ("http-get:*:audio/mpeg:*" :>
     {"mp3"}) @@
  ("http-get:*:audio/mp4:*" :>
     {"aac"}) @@
  ("http-get:*:AUDIO/MPEG:*" :>
     {"mp3"}) @@
  ("http-get:*:audio/mpeg:*,http-get:*:audio/x-flac:*" :>
     {"flac", "mp3"}) @@
  ("http-get:*:audio/x-wav:*,http-get:*:application/ogg:*" :>
     {"wav"}) @@
  ("http-get:*:audio/ogg:*,http-get:*:audio/aac:*" :>
     {"aac", "ogg"}) @@
  ("http-get:*:video/mp4:*" :>
     {}) @@
  ("http-get:*:audio/x-mpeg:*" :>
     {}) @@
  ("http-get:*:audio/aac:*, http-get:*:audio/mp4:DLNA.ORG_PN=AAC_ISO" :>
     {"aac"}) @@
  ("rtsp-rtp-udp:*:audio/mpeg:*" :>
     {"mp3"}) @@
  ("http-get:*:audio/mpeg:DLNA.ORG_PN=MP3&DLNA.ORG_OP=01" :>
     {"mp3"})

\* C20: detect_capabilities derives the five flags from the Sink list alone, by a
\* case-insensitive match on each entry: a Sink with only audio/mpeg gives mp3
\* without aac, one with only audio/mp4 gives aac without mp3; a failed or empty
\* probe gives all five flags false and an unknown raw value, and no error.
CapabilitiesFromSink ==
  Returned("detect_capabilities") =>
    LET o == call.in
        got == Answered200(o) /\ o.text # ""
    IN  /\ ~got => call.out = UnknownCaps
        /\ got => call.out = [has |-> TRUE, fams |-> ExpectedFlags[o.text], raw |-> o.text]
        /\ got /\ o.text = "http-get:*:audio/mpeg:*" => call.out = Mp3Caps
        /\ got /\ o.text = "http-get:*:audio/mp4:*" => call.out = AacCaps
        /\ call.out \in ProbedCaps \/ got

UppercaseSinkDetected ==
  /\ Returned("detect_capabilities")
  /\ call.in.text = "http-get:*:AUDIO/MPEG:*"
  /\ call.out.fams = {"mp3"}

\* the description is fetched and lists a service whose type names AVTransport
HasAvTransportService(doc) ==
  /\ doc.kind = "response" /\ doc.status = 200 /\ doc.root = "device"
  /\ \E i \in 1..Len(doc.services) :
        doc.services[i].hasType /\ IsSubstr(<<"A","V","T","r","a","n","s","p","o","r","t">>, doc.services[i].type)

\* C16: discover never returns a device whose description lists no AVTransport
\* service, and a LOCATION that arrives several times contributes at most one
\* device.
DiscoveredHaveAvTransport ==
  /\ Returned("_fetch_device_info") /\ call.out # NoInfo => HasAvTransportService(call.in.doc)
  /\ Returned("discover") =>
        LET devices == call.out.devices
        IN  \A i \in 1..Len(devices) :
              /\ HasAvTransportService(call.in.docs[devices[i].location])
              /\ \A j \in 1..Len(devices) : devices[j].location = devices[i].location => j = i

DuplicateLocationOneDevice ==
  /\ Returned("discover")
  /\ call.in.responses = <<"http://tv/desc.xml", "http://amp:8080/desc.xml", "http://tv/desc.xml">>
  /\ ~HasAvTransportService(call.in.docs["http://amp:8080/desc.xml"])
  /\ Len(call.out.devices) = 1

TimeoutKeepsFirstDevice ==
  /\ Returned("discover")
  /\ call.in.cut = 1
  /\ Len(SeenLocations(call.in.responses)) = 2
  /\ Len(call.out.devices) = 1

\* C30: get_transport_info(retries = n) issues at most n + 1 requests; it returns
\* the state of the first response that parses and issues no request after it;
\* after an empty response or a parse failure it tries again while attempts
\* remain, and after n + 1 failed attempts it returns None.
TransportInfoBoundedRetries ==
  Returned("get_transport_info") =>
    LET n == call.in.retries
        parsed == { k \in 1..(n + 1) : call.in.answers[k] \notin {"none", "malformed"} }
    IN  /\ call.out.requests <= n + 1
        /\ parsed # {} =>
             /\ call.out.requests \in parsed
             /\ \A k \in parsed : call.out.requests <= k
             /\ call.out.state = call.in.answers[call.out.requests]
        /\ parsed = {} => call.out.requests = n + 1 /\ call.out.state = "unavailable"

TransportInfoParsedOnLastAttempt ==
  /\ Returned("get_transport_info")
  /\ call.in.retries = 2
  /\ call.in.answers[1] = "none" /\ call.in.answers[2] = "malformed"
  /\ call.in.answers[3] = "PLAYING" /\ call.in.answers[4] = "PLAYING"
  /\ call.out = [requests |-> 3, state |-> "PLAYING"]

\* the bucket of each MIME type of the model, by the family its name belongs to
\* (mpeg/mp3; aac/mp4/adts/m4a; flac; wav; ogg), "none" for a name of no family
BucketOfMime ==
  ("audio/mpeg" :> "mp3") @@ ("audio/aac" :> "aac") @@ ("application/ogg" :> "ogg") @@
  ("text/html" :> "none") @@ ("" :> "none") @@ ("audio/mp3" :> "mp3") @@
  ("AUDIO/MPEG" :> "mp3") @@ ("audio/mp4" :> "aac") @@ ("audio/vnd.dlna.adts" :> "aac") @@
  ("audio/x-m4a" :> "aac") @@ ("audio/flac" :> "flac") @@ ("audio/x-wav" :> "wav") @@
  ("audio/ogg" :> "ogg") @@ ("audio/aacp" :> "aac") @@ ("audio/mpeg4-generic" :> "mp3") @@
  ("video/mp4" :> "aac") @@ ("audio/x-mpeg" :> "mp3") @@ ("audio/x-hx-aac-adts" :> "aac") @@
  ("audio/L16" :> "none")

\* C21: can_play_format(mime) routes the MIME type to one capability bucket by
\* its family and returns that bucket's flag, false for a MIME type of no family;
\* it runs detect_capabilities() first exactly when capabilities were never
\* detected, and returns false when the detection yields nothing.
CanPlayFormatByFamily ==
  Returned("can_play_format") =>
    LET probe == call.in.http
        detected == Answered200(probe) /\ probe.text # ""
        flags == IF call.in.caps.has THEN call.in.caps.fams
                 ELSE IF detected THEN ExpectedFlags[probe.text] ELSE {}
    IN  /\ call.out.probed <=> ~call.in.caps.has
        /\ call.out.capabilities.has
        /\ call.out.capabilities.fams = flags
        /\ call.out.ret <=> BucketOfMime[call.in.mime] \in flags
        /\ ~call.in.caps.has /\ ~detected => ~call.out.ret

LazyDetectionFoundAac ==
  /\ Returned("can_play_format")
  /\ call.in.caps = NoCaps
  /\ call.in.http = [kind |-> "response", status |-> 200, text |-> "http-get:*:audio/mp4:*"]
  /\ call.in.mime = "audio/vnd.dlna.adts"
  /\ call.out.probed /\ call.out.ret

\* the entity of a character: the text that stands for it in XML content
RECURSIVE EntityCoded(_)
EntityCoded(t) ==
  IF t = <<>> THEN <<>>
  ELSE (CASE Head(t) = "&" -> <<"&","a","m","p",";">>
          [] Head(t) = "<" -> <<"&","l","t",";">>
          [] Head(t) = ">" -> <<"&","g","t",";">>
          [] Head(t) = "\"" -> <<"&","q","u","o","t",";">>
          [] Head(t) = "'" -> <<"&","a","p","o","s",";">>
          [] OTHER -> <<Head(t)>>) \o EntityCoded(Tail(t))

\* every ampersand of t begins one of the five entities
AmpersandsBeginEntities(t) ==
  \A i \in 1..Len(t) : t[i] = "&" =>
    \E e \in { <<"&","a","m","p",";">>, <<"&","l","t",";">>, <<"&","g","t",";">>,
                <<"&","q","u","o","t",";">>, <<"&","a","p","o","s",";">> } :
      i + Len(e) - 1 <= Len(t) /\ SubSeq(t, i, i + Len(e) - 1) = e

ProfileOfMime ==
  ("audio/mpeg" :> <<"M","P","3">>) @@
  ("audio/aac" :> <<"A","A","C","_","I","S","O">>) @@
  ("application/ogg" :> <<"M","P","3">>) @@
  ("text/html" :> <<"M","P","3">>) @@
  ("audio/mp3" :> <<"M","P","3">>) @@
  ("AUDIO/MPEG" :> <<"M","P","3">>) @@
  ("audio/mp4" :> <<"A","A","C","_","I","S","O">>) @@
  ("audio/vnd.dlna.adts" :> <<"M","P","3">>) @@
  ("audio/x-m4a" :> <<"M","P","3">>) @@
  ("audio/flac" :> <<"F","L","A","C">>) @@
  ("audio/x-wav" :> <<"M","P","3">>) @@
  ("audio/ogg" :> <<"M","P","3">>) @@
  ("audio/aacp" :> <<"A","A","C","_","I","S","O">>) @@
  ("audio/mpeg4-generic" :> <<"M","P","3">>) @@
  ("video/mp4" :> <<"A","A","C","_","I","S","O">>) @@
  ("audio/x-mpeg" :> <<"M","P","3">>) @@
  ("audio/x-hx-aac-adts" :> <<"A","A","C","_","I","S","O">>) @@
  ("audio/L16" :> <<"M","P","3">>) @@
  ("" :> <<"M","P","3">>)

\* C22: when the declared Sink list has an http-get entry whose MIME field is the
\* target MIME type or one of its aliases, the protocolInfo of the res element is
\* such a declared entry, for an AAC target an audio/mp4 entry before any other;
\* otherwise, and without capabilities, it is the synthesized protocolInfo with
\* the profile name of the MIME family and the fixed OP, CI and FLAGS values.
DeclaredProtocolInfoUsed ==
  Returned("_build_didl_metadata") =>
    LET caps == call.in.caps
        target == Lower(MimeChars[call.in.mime])
        aliases ==
          IF IsSubstr(<<"a","a","c">>, target)
          THEN { <<"a","u","d","i","o","/","m","p","4">>, <<"a","u","d","i","o","/","a","a","c">>, <<"a","u","d","i","o","/","a","a","c","p">>, <<"a","u","d","i","o","/","x","-","a","a","c">> }
          ELSE IF IsSubstr(<<"m","p","3">>, target) \/ IsSubstr(<<"m","p","e","g">>, target)
          THEN { <<"a","u","d","i","o","/","m","p","e","g">>, <<"a","u","d","i","o","/","m","p","3">> }
          ELSE {}
        entries == IF caps.has THEN Split(SinkChars[caps.raw], ",") ELSE <<>>
        Field(i, k) == Lower(Split(entries[i], ":")[k])
        Declares(i, names) ==
          /\ Len(Split(entries[i], ":")) >= 3
          /\ IsSubstr(<<"h","t","t","p","-","g","e","t">>, Field(i, 1))
          /\ Field(i, 3) \in names
        declared == { i \in 1..Len(entries) : Declares(i, {target} \cup aliases) }
        mp4 == { i \in declared : Field(i, 3) = <<"a","u","d","i","o","/","m","p","4">> }
        synthesized == <<"h","t","t","p","-","g","e","t",":","*",":">> \o MimeChars[call.in.mime] \o <<":","D","L","N","A",".","O","R","G","_","P","N","=">>
                       \o ProfileOfMime[call.in.mime] \o <<";","D","L","N","A",".","O","R","G","_","O","P","=","0","1",";","D","L","N","A",".","O","R","G","_","C","I","=","0",";","D","L","N","A",".","O","R","G","_","F","L","A","G","S","=","0","1","7","0","0","0","0","0","0","0","0","0","0","0","0","0","0","0","0","0","0","0","0","0","0","0","0","0","0","0","0","0">>
    IN  IF declared # {}
        THEN /\ \E i \in declared : call.out.protocolInfo = Strip(entries[i])
             /\ IsSubstr(<<"a","a","c">>, target) /\ mp4 # {} =>
                  \E i \in mp4 : call.out.protocolInfo = Strip(entries[i])
        ELSE call.out.protocolInfo = synthesized

DeclaredTargetEntryNotUsed ==
  /\ Returned("_build_didl_metadata")
  /\ call.in.caps.raw = "http-get:*:audio/x-mpeg:*"
  /\ call.in.mime = "audio/x-mpeg"
  /\ call.out.protocolInfo # <<"h","t","t","p","-","g","e","t",":","*",":","a","u","d","i","o","/","x","-","m","p","e","g",":","*">>

\* C24: on /play, /stop and /devices/select, with API-key authentication enabled
\* a request without X-API-Key header or with a key other than the configured one
\* is answered 401 or 403 and the handler body does not run; with authentication
\* disabled, or with the configured key, the handler body runs.
ApiKeyGuardsHandlers ==
  Returned("require_api_key") =>
    LET enabled == call.in.api_auth_enabled
        matches == call.in.header # "" /\ call.in.header = call.in.api_key
    IN  /\ enabled /\ ~matches => call.out.status \in {401, 403} /\ ~call.out.body_ran
        /\ ~enabled \/ matches => call.out.body_ran

HandlerUnreachableWithAuthDisabled ==
  /\ Returned("require_api_key")
  /\ ~call.in.api_auth_enabled
  /\ call.out = [body_ran |-> FALSE, status |-> 500]

\* C25: the capabilities stored with the selected device are those of the last
\* successful GetProtocolInfo response: no step replaces the capabilities that a
\* successful probe gave the selected device by those of a failed probe (all
\* flags false, no raw protocol info).
StoredCapsFromSuccessfulProbe ==
  [][PersistedCurrent # NoDev /\ PersistedCurrent' # NoDev
       /\ PersistedCurrent'.id = PersistedCurrent.id
       /\ PersistedCurrent.caps.has /\ PersistedCurrent.caps.raw # ""
     => PersistedCurrent'.caps.raw # ""]_vars

FailedProbeStoredOnReselect ==
  /\ sel[1].pc = "done" /\ sel[1].code = 200
  /\ PersistedCurrent = sel[1].dev
  /\ PersistedCurrent.caps = UnknownCaps

\* C26: get_cache_age() reports None in every state before the first discovery
\* scan has completed and an age in every state after it has completed, whatever
\* the scan found.
CacheAgeNullUntilScanCompleted ==
  call.fn = "_background_device_scan" =>
    (GetCacheAge(dm[1], stateFile, now) = NoTime <=> ~call.done)

AgeReportedDuringFirstScan ==
  /\ call.fn = "_background_device_scan" /\ ~call.done
  /\ regRet.op = "age" /\ regRet.fresh /\ regRet.age # NoTime

AgeNullAfterEmptyScan ==
  /\ call.fn = "_background_device_scan" /\ call.done /\ call.out = <<>>
  /\ regRet.op = "age" /\ regRet.fresh /\ regRet.age = NoTime

\* C27: format detection consults the cache, then the HEAD request, then the
\* prober, and stops at the first that answers: on a cache entry that has not
\* expired neither HEAD nor the prober runs; the prober runs exactly when there
\* was no such entry and HEAD raised or returned no Content-Type; a HEAD result
\* is cached with method 'head', a prober result with method 'ffprobe'; when all
\* fail the result is None and nothing is written to the cache.
DetectionOrderCacheHeadProber ==
  Returned("_detect_stream_format") =>
    LET in == call.in
        d == call.out
        key == CacheKey(in.url)
        hit == key \in DOMAIN in.cache /\ in.time - in.cache[key].timestamp <= TTL
        failed == in.head \in {"raise", "none"}
        Stored(mime, method) ==
          /\ d.fmt = mime
          /\ key \in DOMAIN d.c /\ d.file.exists /\ key \in DOMAIN d.file.data
          /\ \A e \in {d.c[key], d.file.data[key]} :
               e.mime_type = mime /\ e.detection_method = method /\ e.timestamp = in.time
    IN  /\ d.head <=> ~hit
        /\ d.probe <=> ~hit /\ failed
        /\ hit => d.fmt = in.cache[key].mime_type /\ d.c = in.cache /\ d.file = in.file
        /\ ~hit /\ ~failed => Stored(HeadMime(in.head), "head")
        /\ ~hit /\ failed /\ in.probe # "" => Stored(in.probe, "ffprobe")
        /\ ~hit /\ failed /\ in.probe = "" =>
             /\ d.fmt = "" /\ d.file = in.file
             /\ \A k \in DOMAIN d.c : k \in DOMAIN in.cache /\ d.c[k] = in.cache[k]

ExpiredEntryProbedAgain ==
  /\ Returned("_detect_stream_format")
  /\ CacheKey(call.in.url) \in DOMAIN call.in.cache
  /\ call.in.cache[CacheKey(call.in.url)].detection_method = "head"
  /\ call.in.time - call.in.cache[CacheKey(call.in.url)].timestamp > TTL
  /\ call.in.head = "raise"
  /\ call.out.probe /\ call.out.fmt = "audio/aac"
  /\ call.out.c[CacheKey(call.in.url)].detection_method = "ffprobe"

FormatTakenFromCache ==
  /\ Returned("_detect_stream_format")
  /\ call.in.head = "audio/mpeg"
  /\ call.out.fmt = "audio/aac" /\ ~call.out.head
  /\ call.in.time > call.in.cache[CacheKey(call.in.url)].timestamp

FailedStartRolledBack ==
  [][\A t \in Threads :
       req[t].pc = "p_bind" /\ req'[t].pc = "done" /\ req'[t].code = 500 =>
         /\ objs[req[t].self].proc \notin alive'
         /\ pidFile' = None
         /\ ~objs'[req[t].self].server /\ portOwner' # req[t].self]_vars

TranscoderLeftAfterFailedBind ==
  /\ req[1].op = "play" /\ req[1].pc = "done" /\ req[1].code = 500
  /\ req[1].self # None
  /\ objs[req[1].self].proc = req[1].self
  /\ req[1].self \in alive /\ pidFile = req[1].self
  /\ ~objs[req[1].self].server /\ ~objs[req[1].self].running

\* C31: play_url sends SetAVTransportURI first and Play after it; Play is sent
\* exactly when SetAVTransportURI succeeded, and at most once; the result is true
\* exactly when both requests succeeded.
PlayUrlSetBeforePlay ==
  Returned("play_url") =>
    LET sends == call.out.sends
        setOk == Answered200(call.in.set)
        playOk == Answered200(call.in.play)
    IN  /\ Len(sends) >= 1 /\ sends[1] = "SetAVTransportURI"
        /\ \A k \in DOMAIN sends : sends[k] = "Play" => k = 2 /\ setOk
        /\ \A k \in DOMAIN sends : sends[k] = "SetAVTransportURI" => k = 1
        /\ setOk => sends = <<"SetAVTransportURI", "Play">>
        /\ ~setOk => sends = <<"SetAVTransportURI">>
        /\ call.out.ret <=> (setOk /\ playOk)

NoPlayAfterFailedSetUri ==
  /\ Returned("play_url")
  /\ call.in.set.kind = "response" /\ call.in.set.status = 500
  /\ Answered200(call.in.play)
  /\ call.out = [sends |-> <<"SetAVTransportURI">>, ret |-> FALSE]

\* C32: the calls on one StreamFormatCache exclude each other: no get, set,
\* clear or dump of the cache raises, and when a set() of an entry that has not
\* expired returns, the cache in memory and the persisted document hold an entry
\* for its URL.
CacheCallsExcludeEachOther ==
  [][\A t \in Threads :
       /\ cacheOp'[t].raised = ""
       /\ ( /\ cacheOp[t].op = "set" /\ cacheOp[t].pc = "save" /\ cacheOp'[t].pc = "done"
            /\ ~Expired(cacheOp[t].entry, now) ) =>
            /\ CacheKey(cacheOp[t].url) \in DOMAIN cache'[1]
            /\ cacheFile'.exists
            /\ CacheKey(cacheOp[t].url) \in DOMAIN cacheFile'.data]_vars

\* a set() returned while the cache and the document hold nothing for its URL
SetReturnedWithoutEntry ==
  \E t \in Threads :
    /\ cacheOp[t].op = "set" /\ cacheOp[t].pc = "done" /\ cacheOp[t].raised = ""
    /\ ~Expired(cacheOp[t].entry, now)
    /\ \A x \in Threads \ {t} : cacheOp[x].op = "clear" /\ cacheOp[x].pc = "done"
    /\ persistTime = now
    /\ CacheKey(cacheOp[t].url) \notin DOMAIN cache[1]
    /\ cacheFile.exists /\ CacheKey(cacheOp[t].url) \notin DOMAIN cacheFile.data

\* C33: the workers share the cache through its file: a get(url) in any worker
\* returns the entry of the last set(url) of any worker while it has not expired,
\* and the persisted document holds the entry of every set() that had not expired
\* when the document was written.
CacheSharedAcrossWorkers ==
  /\ \A u \in CacheUrls :
       JustGot(u) /\ cacheHist[u] # NoHist /\ now - cacheHist[u][3] <= TTL =>
         /\ cacheRet.entry.mime_type = cacheHist[u][1]
         /\ cacheRet.entry.detection_method = cacheHist[u][2]
  /\ \A u \in CacheUrls :
       cacheHist[u] # NoHist /\ persistTime - cacheHist[u][3] <= TTL =>
         /\ cacheFile.exists
         /\ CacheKey(u) \in DOMAIN cacheFile.data
         /\ cacheFile.data[CacheKey(u)].mime_type = cacheHist[u][1]

\* worker 2 got nothing for a URL that worker 1 had set a moment before
OtherWorkerMissedEntry ==
  /\ JustGot("http://radio/a") /\ cacheRet.entry = NoEntry
  /\ cacheHist["http://radio/a"][3] = now
  /\ CacheKey("http://radio/a") \in DOMAIN cache[1]
  /\ CacheKey("http://radio/a") \notin DOMAIN cache[2]
  /\ cacheFile.exists /\ CacheKey("http://radio/a") \in DOMAIN cacheFile.data

\* C34: a client that goes away while the relay writes a chunk ends that response
\* only: in that step the transcoder subprocess, the running flag, the listener,
\* the PID file and the session reference are unchanged; and a chunk written to a
\* later connection, with the session untouched in between, is read from the
\* subprocess the earlier connection was served from.
DisconnectEndsOnlyThatResponse ==
  [][/\ ( /\ call.fn = "do_GET" /\ ~call.done
          /\ call'.done /\ call'.out.ended \in Disconnects ) =>
          UNCHANGED <<objs, alive, pidFile, portOwner, handlerProc, streamer, nobj>>
     /\ ( /\ call.fn = "do_GET" /\ ~call.done /\ call.in.prevEnded \in Disconnects
          /\ call.in.prevFrom \in alive /\ objs[call.in.prevFrom].running
          /\ call'.out.chunks > call.out.chunks ) =>
          call'.out.from = call.in.prevFrom]_vars

ServedAgainAfterDisconnect ==
  /\ call.fn = "do_GET" /\ call.in.conn = 2
  /\ call.in.prevEnded = "BrokenPipeError" /\ call.in.prevFrom = 1
  /\ call.out.status = 200 /\ call.out.chunks = 1 /\ call.out.from = 1
  /\ 1 \in alive /\ objs[1].running /\ objs[1].server /\ portOwner = 1

\* C35: for every integer in the timeout parameter of a forced scan the timeout
\* handed to the discovery lies between 1 and 15, and a parameter outside that
\* range does not make the scan replace a device cache by the empty list while
\* renderers answer on the network.
ForcedScanTimeoutWithinRange ==
  Returned("devices") =>
    /\ call.out.timeout \in 1..15
    /\ ( call.in.timeout \notin 1..15 /\ call.in.found # <<>> ) =>
         call.out.cached_devices # <<>>

NegativeTimeoutEmptiedCache ==
  /\ Returned("devices")
  /\ call.in.timeout = 0 - 1
  /\ call.in.cached # <<>> /\ call.in.found # <<>>
  /\ call.out.timeout = 0 - 1
  /\ call.out.returns /\ call.out.devices = <<>> /\ call.out.cached_devices = <<>>

\* C36: a registry write changes only its own field of the state file:
\* select_device and clear_device leave the persisted cached_devices and
\* last_scan_time as they were, and update_device_cache leaves the persisted
\* current_device as it was, also when another worker wrote the file since the
\* writing worker last read it.
RegistryWritesOwnFieldOnly ==
  [][stateFile' # stateFile /\ stateFile.exists /\ lastWrite' # lastWrite =>
       LET old == LoadState(EmptySnapshot, stateFile)
           new == LoadState(EmptySnapshot, stateFile')
       IN  /\ lastWrite'.op \in {"select", "clear"} =>
                /\ new.cached_devices = old.cached_devices
                /\ new.last_scan_time = old.last_scan_time
           /\ lastWrite'.op = "update" => new.current_device = old.current_device]_vars

\* worker 2 selected a device from a snapshot older than the scan of worker 1:
\* the persisted device cache is empty again
StaleSelectDroppedDeviceCache ==
  /\ lastWrite.op = "select" /\ lastWrite.w = 2
  /\ dm[1].cached_devices # <<>> /\ dm[1].last_scan_time # NoTime
  /\ dm[2].cached_devices = <<>>
  /\ stateFile.exists
  /\ LoadState(EmptySnapshot, stateFile).current_device = lastWrite.dev
  /\ LoadState(EmptySnapshot, stateFile).cached_devices = <<>>
  /\ LoadState(EmptySnapshot, stateFile).last_scan_time = NoTime

\* C37: has_device() returns true exactly when get_current_device(), called by
\* the same worker at the same moment, would return a device; also after the
\* other worker selected or cleared the device through the state file.
HasDeviceAgreesWithCurrentDevice ==
  [][call' # call =>
       (call'.out <=> GetCurrentDevice(dm[call'.in], stateFile) # NoDev)]_vars

\* worker 2 answered that no device is selected while the state file, written by
\* worker 1, holds one
HasDeviceMissedOtherWorkersSelection ==
  /\ call.done /\ call.in = 2 /\ ~call.out
  /\ lastWrite.op = "select" /\ lastWrite.w = 1
  /\ dm[2].current_device = NoDev
  /\ GetCurrentDevice(dm[2], stateFile) = lastWrite.dev
  /\ lastWrite.dev # NoDev

\* C38: the MIME type announced to the device in the metadata sent by /play is
\* the format delivered at the playback URL: audio/mpeg when the stream is
\* transcoded, the detected stream format when the original URL is passed
\* through.
AnnouncedMimeIsDeliveredFormat ==
  \A t \in Threads :
    req[t].op = "play" /\ req[t].pushed # NoUrl =>
      req[t].mime = IF req[t].needs THEN "audio/mpeg" ELSE req[t].fmt

\* an AAC stream was passed through to a device that plays AAC, and the metadata
\* announced audio/mpeg
PassthroughAacAnnouncedAsMpeg ==
  /\ req[1].op = "play" /\ req[1].pc = "done" /\ req[1].code = 200
  /\ ~req[1].needs /\ req[1].pushed = req[1].url
  /\ req[1].fmt = "audio/aac"
  /\ can_play_format(req[1].caps, "audio/aac")
  /\ req[1].mime = "audio/mpeg"

\* C39: is_running() of an AudioStreamer returns true only when the running flag
\* of the streamer is set, and then a following stop() terminates the subprocess
\* and removes the PID file; /health reports streaming = true only for such a
\* session.
IsRunningOnlyForStartedSession ==
  /\ \A s \in Objects : objs[s].kind = "audio" /\ AudioIsRunning(World, s).ret =>
        /\ objs[s].running
        /\ LET w == AudioStop(World, s)
           IN  objs[s].proc \notin w.alive /\ w.pidFile = None
  /\ \A t \in Threads :
        /\ req[t].op = "health" /\ req[t].pc = "done" /\ req[t].streaming
        /\ streamer # None /\ objs[streamer].kind = "audio"
        /\ objs[streamer].proc # None /\ objs[streamer].proc \in alive
        => objs[streamer].running

\* /health reported streaming = true for the session whose start() raised at the
\* bind: the running flag is clear, the transcoder lives, stop() releases nothing
HealthStreamingAfterFailedStart ==
  /\ req[1].op = "health" /\ req[1].pc = "done" /\ req[1].streaming
  /\ streamer # None /\ objs[streamer].kind = "audio"
  /\ ~objs[streamer].running /\ ~objs[streamer].server
  /\ AudioIsRunning(World, streamer).ret
  /\ AudioStop(World, streamer) = World
  /\ streamer \in alive /\ pidFile = streamer

\* C40: when several threads call is_running() at the same time on an
\* AudioStreamer whose transcoder has died, the crash cleanup is performed once:
\* the crash callback is reached at most once, the listener is shut down and
\* closed once, and no call raises.
ConcurrentCrashCleanupOnce ==
  /\ \A s \in Objects :
        /\ Cleanups[s].callbacks <= 1
        /\ Cleanups[s].shutdowns <= 1
        /\ Cleanups[s].closes <= 1
  /\ \A t \in Threads : req[t].op \in RunningOps => req[t].code # 500

\* /health and /status both found the crash of the current session: both shut
\* the listener down, both closed it, both reached the crash callback
CrashCleanupRanTwice ==
  /\ streamer # None
  /\ Cleanups[streamer] = [shutdowns |-> 2, closes |-> 2, callbacks |-> 2]
  /\ \A t \in Threads :
        req[t].op \in RunningOps /\ req[t].pc = "done" /\ req[t].crashed /\ ~req[t].streaming
  /\ ~objs[streamer].running /\ ~objs[streamer].server

=============================================================================
